---- MODULE Spec2Model ----
(***************************************************************************)
(* Verification model of the playlist migration pipeline of tiddl          *)
(* (src/tiddl/cli/commands/migrate/*.py, src/tiddl/core/api/api.py,        *)
(* src/tiddl/core/odesli/client.py).                                       *)
(*                                                                         *)
(* The module holds several specifications over one set of variables; a   *)
(* specification leaves the variables of the others at their idle values. *)
(*   SpecMatch  name_match / match_spotify_to_existing_tidal (tracks.py)   *)
(*   SpecDedup  remove_duplicates_from_playlist (playlist.py)              *)
(*   SpecRate   OdesliClient._wait_for_rate_limit (odesli/client.py)       *)
(*   SpecPar    N migration workers feeding the shared report collector    *)
(*   Spec       migrate_playlist for one playlist (command.py)             *)
(***************************************************************************)
EXTENDS Integers, Sequences, FiniteSets, TLC

VARIABLES
    \* ---- SpecMatch: one call of the matching functions of tracks.py
    spotify_track,      \* the source track handed to the matcher
    existing_tracks,    \* the snapshot list handed to the matcher
    matched_id,         \* its return value
    m_pc,               \* "call" before the matcher ran, "done" after it
    \* ---- SpecDedup: remove_duplicates_from_playlist on one target playlist
    dd_initial,         \* the ids of the target playlist when the run began
    dd_pc,              \* position inside remove_duplicates_from_playlist
    dry_run,            \* its dry_run argument
    tracks_with_indices,\* the listing it works from ("unset" before the fetch)
    dd_items,           \* the target playlist on the server: [pos, id] per item,
                        \* pos being the item's position when the run began
    duplicates,         \* the sorted duplicates that are still to be deleted
    dd_sent,            \* the DELETE requests made so far: [indices, ok]
    dd_failed,          \* TRUE once the listing stopped early on a failed page
    \* ---- SpecRate: the one OdesliClient of a run, used by the migration workers
    clock,              \* time.time(), in tenths of a second
    request_times,      \* OdesliClient.request_times
    issued,             \* the time of every universal-link request made so far
    rl_pc,              \* per worker: its position in _wait_for_rate_limit
    rl_now,             \* per worker: its local variable now
    rl_wake,            \* per worker: the time at which its sleep ends
    rl_calls,           \* per worker: the calls it has completed
    \* ---- SpecPar: _run_migration_loop feeding the shared PlaylistReportCollector
    selected_playlists, \* the selected source playlists: name and number of tracks
    migration_workers,  \* size of the migration pool (1 = sequential mode)
    par_pc,             \* per selected playlist: position of its task
    par_idx,            \* per selected playlist: tracks recorded so far
    c_playlists,        \* PlaylistReportCollector._playlists: name -> rows
    csv_files,          \* the CSV written per playlist name at finalization
    \* ---- Spec: migrate_playlist for one playlist, run up to MaxRuns times
    run,                \* which run of the command this is
    mg_pc,              \* position in migrate_playlist
    spotify_tracks,     \* the tracks of the source playlist
    odesli_answer,      \* universal-link service: source id -> answer
    search_results,     \* target search: the result list of a query that succeeds
    failing_queries,    \* target search: the queries on which get_search raises
    unavailable,        \* target ids whose add the server rejects
    tidal_exists,       \* the user has a target playlist of this title
    tidal_items,        \* the target ids of that playlist, in order
    existing_track_ids, \* the set of ids known to be in the target playlist
    existing_tracks_metadata, \* the metadata list fetched with the playlist
    track_idx,          \* enumerate(spotify_tracks, 1)
    tidal_id,           \* the id the cascade has resolved for the track
    source,             \* the step that resolved it
    calls,              \* history: the service calls of this run
    query_log,          \* history: the search queries sent in this run
    items_at_start,     \* history: the playlist's item count when the run began
    \* ---- SpecRun: spotify_to_tidal, the run of the command over the selection
    options,            \* DOWNLOAD, PARALLEL_DOWNLOAD and FANCY_UI
    main_pc,            \* position of the main thread in spotify_to_tidal
    text_logs,          \* the text log written per playlist name
    futures,            \* PlaylistDownloader._futures
    queued_playlists,   \* PlaylistDownloader._queued_playlists
    dl_state,           \* per selected playlist: the state of its download
    wfc,                \* the frame of the running call of wait_for_completion
    wait_log,           \* history: the calls of wait_for_completion that returned
    dl_results,         \* the local variable results of spotify_to_tidal
    applied,            \* history: the results applied to the reports
    \* ---- SpecDl: one call of PlaylistDownloader._download_playlist
    d_pc,               \* position in _download_playlist
    track_count,        \* its argument track_count
    callbacks,          \* on_start and on_complete are set
    timeout_seconds,    \* its local variable timeout_seconds
    events,             \* history: callbacks, launch and end of the subprocess
    proc,               \* history: what the subprocess did
    d_returned,         \* the tuple the call returned
    n_completed,        \* PlaylistDownloader._completed
    n_failed,           \* PlaylistDownloader._failed
    failed_playlists,   \* PlaylistDownloader._failed_playlists
    \* SpecFlow: the migrate command from its entry to its exit, step by step
    auth,
    playlist_counter,
    current_num,
    start_events,
    task_steps,
    mutations,
    handed,
    dl_order,
    drain,
    exit_code,
    \* SpecReq, SpecAdd, SpecFind, SpecSnap: single calls of the target API client and of the playlist helpers
    \* SpecReq: one call of TidalAPI._request
    rq_pc,
    token,
    on_token_expiry,
    server_status,
    attempts,
    refreshes,
    response,
    \* SpecAdd: one call of TidalAPI.add_tracks_to_playlist
    at_pc,
    add_ids,
    batch_accepted,
    rejected,
    at_idx,
    requests,
    failed_tracks,
    success_count,
    error_ids,
    playlist_items,
    \* SpecFind: one call of find_or_reuse_tidal_playlist
    fr_pc,
    user_playlists,
    listing_fails_at,
    create_response,
    fr_offset,
    fr_calls,
    existing_playlist_uuid,
    playlist_uuid,
    \* SpecSnap: one call of _fetch_all_playlist_tracks
    sn_pc,
    sn_items,
    expected_count,
    page_fails_at,
    track_offset,
    sn_offsets,
    track_ids,
    sn_log,
    \* SpecSearch: one call of search_tidal_track
    sr_pc,
    sr_track,
    sr_results,
    sr_failing,
    sr_n,
    tried_tracks,
    sr_found,
    \* SpecAcct: the counters of the downloader and of the live UI
    ac_enabled,
    ac_parallel,
    ac_ui,
    ac_names,
    ac_fate,
    ac_raises,
    ac_main,
    ac_added,
    ac_futures,
    ac_queue,
    ac_pc,
    ac_completed,
    ac_failed,
    ac_failed_playlists,
    increments,
    ui_download,
    \* SpecRace: find_or_reuse_tidal_playlist called by concurrent workers
    fc_pc,
    fc_names,
    fc_workers,
    fc_server,
    fc_created

matchVars == <<spotify_track, existing_tracks, matched_id, m_pc>>
dedupVars == <<dd_initial, dd_pc, dry_run, tracks_with_indices, dd_items, duplicates, dd_sent, dd_failed>>
rateVars == <<clock, request_times, issued, rl_pc, rl_now, rl_wake, rl_calls>>
parVars == <<selected_playlists, migration_workers, par_pc, par_idx, c_playlists, csv_files>>
parRest == <<selected_playlists, migration_workers, par_pc, par_idx, csv_files>>
migVars == <<run, mg_pc, spotify_tracks, odesli_answer, search_results, failing_queries, unavailable,
             tidal_exists, tidal_items, existing_track_ids, existing_tracks_metadata,
             track_idx, tidal_id, source, calls, query_log, items_at_start>>
runVars == <<options, main_pc, text_logs, futures, queued_playlists, dl_state, wfc, wait_log, dl_results, applied>>
dlVars == <<d_pc, track_count, callbacks, timeout_seconds, events, proc, d_returned, n_completed, n_failed, failed_playlists>>
flowVars == <<auth, playlist_counter, current_num, start_events, task_steps, mutations, handed, dl_order, drain, exit_code>>
mutVars == <<rq_pc, token, on_token_expiry, server_status, attempts, refreshes, response, at_pc, add_ids, batch_accepted, rejected, at_idx, requests, failed_tracks, success_count, error_ids, playlist_items, fr_pc, user_playlists, listing_fails_at, create_response, fr_offset, fr_calls, existing_playlist_uuid, playlist_uuid, sn_pc, sn_items, expected_count, page_fails_at, track_offset, sn_offsets, track_ids, sn_log>>
lateVars == <<sr_pc, sr_track, sr_results, sr_failing, sr_n, tried_tracks, sr_found, ac_enabled, ac_parallel, ac_ui, ac_names, ac_fate, ac_raises, ac_main, ac_added, ac_futures, ac_queue, ac_pc, ac_completed, ac_failed, ac_failed_playlists, increments, ui_download, fc_pc, fc_names, fc_workers, fc_server, fc_created>>
vars == <<matchVars, dedupVars, rateVars, parVars, migVars, runVars, dlVars, flowVars, mutVars, lateVars>>

\* A target id is a positive number; None stands for "no id".
None == 0

NoTrack == [name |-> <<>>, artists |-> <<>>, duration_ms |-> 0]

(***************************************************************************)
(* Sequence helpers.                                                       *)
(***************************************************************************)
Range(s) == {s[i] : i \in 1..Len(s)}

SeqsUpTo(S, n) == UNION {[1..k -> S] : k \in 0..n}

Min(a, b) == IF a <= b THEN a ELSE b

Abs(x) == IF x < 0 THEN -x ELSE x

RECURSIVE Flatten(_)
Flatten(ss) == IF ss = <<>> THEN <<>> ELSE Head(ss) \o Flatten(Tail(ss))

\* Python's `a in b` for strings: a occurs in b as a contiguous run of
\* characters; the empty string occurs in every string.
IsSubstring(a, b) ==
    \E i \in 0..(Len(b) - Len(a)) : SubSeq(b, i + 1, i + Len(a)) = a

(***************************************************************************)
(* Text.  A title or an artist name is a sequence of tokens; the string   *)
(* it stands for is the tokens joined by single spaces.  A token is       *)
(* either a word (a maximal run of word characters) or one punctuation    *)
(* character, so a regular expression's \b falls exactly on the token     *)
(* boundaries.  Chars gives the lower-cased characters of a word, which   *)
(* is what the substring tests of name_match compare.                     *)
(***************************************************************************)
Blank == " "

Words == {"sun", "sunset", "remix", "Remix", "remixed", "live", "dua", "lipa", "yoru"}

Punct == {"(", ")", "[", "]", "-", "&"}

\* "yoru" stands for a word written in a non-ASCII script.
NonAscii == {"yoru"}

Lower(w) == IF w = "Remix" THEN "remix" ELSE w

Chars(w) ==
    CASE w = "sun"     -> <<"s", "u", "n">>
      [] w = "sunset"  -> <<"s", "u", "n", "s", "e", "t">>
      [] w = "remix"   -> <<"r", "e", "m", "i", "x">>
      [] w = "remixed" -> <<"r", "e", "m", "i", "x", "e", "d">>
      [] w = "live"    -> <<"l", "i", "v", "e">>
      [] w = "dua"     -> <<"d", "u", "a">>
      [] w = "lipa"    -> <<"l", "i", "p", "a">>
      [] w = "yoru"    -> <<"Y">>
      [] OTHER         -> <<w>>

\* The characters of the string that a sequence of tokens stands for.
RECURSIVE Join(_)
Join(ts) ==
    IF ts = <<>> THEN <<>>
    ELSE IF Len(ts) = 1 THEN Chars(Lower(ts[1]))
    ELSE Chars(Lower(ts[1])) \o <<" ">> \o Join(Tail(ts))

(***************************************************************************)
(* tracks.py: the matching predicates.                                     *)
(***************************************************************************)
\* REMIX_PATTERN = \bremix\b, IGNORECASE: some token is the word "remix".
is_remix(name) == \E i \in 1..Len(name) : Lower(name[i]) = "remix"

remix_status_matches_NoCheck(name1, name2) == TRUE

remix_status_matches(name1, name2) == is_remix(name1) = is_remix(name2)

\* re.sub(open [^close]* close, ' ', text): each leftmost opening token that
\* has a closing token after it is blanked together with everything up to
\* the first such closing token; an opening token that is never closed stays.
RECURSIVE StripSegments(_, _, _)
StripSegments(ts, open, close) ==
    IF ts = <<>> THEN <<>>
    ELSE IF Head(ts) = open /\ \E j \in 2..Len(ts) : ts[j] = close
         THEN LET j == CHOOSE k \in 2..Len(ts) :
                           /\ ts[k] = close
                           /\ \A m \in 2..(k - 1) : ts[m] # close
              IN  [i \in 1..j |-> Blank] \o StripSegments(SubSeq(ts, j + 1, Len(ts)), open, close)
         ELSE <<Head(ts)>> \o StripSegments(Tail(ts), open, close)

\* The one-word alternatives of REMOVE_SUFFIXES (the two-word alternatives
\* need words that the modelled vocabulary does not contain).
SuffixWords == {"bootleg", "remaster", "remastered", "deluxe", "live",
                "acoustic", "instrumental", "feat", "ft", "featuring"}

StripSuffixes(ts) ==
    [i \in 1..Len(ts) |-> IF Lower(ts[i]) \in SuffixWords THEN Blank ELSE ts[i]]

\* `if ' - ' in result: result = result.split(' - ')[0]`: a hyphen token has
\* a space on both sides unless it is the first or the last token.
TruncateAtDash(ts) ==
    IF \E i \in 2..(Len(ts) - 1) : ts[i] = "-"
    THEN LET i == CHOOSE k \in 2..(Len(ts) - 1) :
                      /\ ts[k] = "-"
                      /\ \A m \in 2..(k - 1) : ts[m] # "-"
         IN  SubSeq(ts, 1, i - 1)
    ELSE ts

KeepChar(w, keep_non_ascii) ==
    /\ w \notin Punct
    /\ w # Blank
    /\ (keep_non_ascii \/ w \notin NonAscii)

RECURSIVE KeepAlnum(_, _)
KeepAlnum(ts, keep_non_ascii) ==
    IF ts = <<>> THEN <<>>
    ELSE (IF KeepChar(Head(ts), keep_non_ascii) THEN <<Lower(Head(ts))>> ELSE <<>>)
         \o KeepAlnum(Tail(ts), keep_non_ascii)

\* The normalised text as its sequence of lower-cased words.
normalize_for_search(text, keep_non_ascii) ==
    IF text = <<>> THEN <<>>
    ELSE KeepAlnum(
            TruncateAtDash(
                StripSuffixes(StripSegments(StripSegments(text, "(", ")"), "[", "]"))),
            keep_non_ascii)

RECURSIVE Before(_, _)
Before(ts, sep) ==
    IF ts = <<>> \/ Head(ts) = sep THEN <<>>
    ELSE <<Head(ts)>> \o Before(Tail(ts), sep)

simplify_name(name) == Before(Before(Before(name, "-"), "("), "[")

Contains(a, b) == IsSubstring(Join(a), Join(b)) \/ IsSubstring(Join(b), Join(a))

name_match(tidal_name, spotify_name) ==
    LET norm_tidal    == normalize_for_search(tidal_name, TRUE)
        norm_spotify  == normalize_for_search(spotify_name, TRUE)
        ascii_tidal   == normalize_for_search(tidal_name, FALSE)
        ascii_spotify == normalize_for_search(spotify_name, FALSE)
    IN  IF ~remix_status_matches(tidal_name, spotify_name) THEN FALSE
        ELSE IF norm_tidal # <<>> /\ norm_spotify # <<>> /\ Contains(norm_spotify, norm_tidal)
             THEN TRUE
        ELSE IF ascii_tidal # <<>> /\ ascii_spotify # <<>> /\ Contains(ascii_spotify, ascii_tidal)
             THEN TRUE
        ELSE IF ascii_tidal # <<>> /\ norm_spotify # <<>> /\ Contains(ascii_tidal, norm_spotify)
             THEN TRUE
        ELSE Contains(simplify_name(spotify_name), simplify_name(tidal_name))

duration_match_Strict(tidal_duration, spotify_duration_ms, tolerance_sec) ==
    Abs(1000 * tidal_duration - spotify_duration_ms) < 1000 * tolerance_sec

\* abs(tidal_duration - spotify_duration_ms / 1000) <= tolerance_sec
duration_match(tidal_duration, spotify_duration_ms, tolerance_sec) ==
    Abs(1000 * tidal_duration - spotify_duration_ms) <= 1000 * tolerance_sec

\* name.replace('&', ',')...split(','): the parts of an artist name.
Separators == {"&", ","}

RECURSIVE SplitArtist(_, _)
SplitArtist(ts, acc) ==
    IF ts = <<>> THEN {acc}
    ELSE IF Head(ts) \in Separators THEN {acc} \cup SplitArtist(Tail(ts), <<>>)
    ELSE SplitArtist(Tail(ts), Append(acc, Head(ts)))

get_artist_names(artists, keep_non_ascii) ==
    { normalize_for_search(part, keep_non_ascii) :
        part \in UNION {SplitArtist(artists[i], <<>>) : i \in 1..Len(artists)} } \ {<<>>}

artist_match(tidal_artists, spotify_artists) ==
    LET tidal_names   == get_artist_names(tidal_artists, TRUE)
        spotify_names == get_artist_names(spotify_artists, TRUE)
        tidal_ascii   == get_artist_names(tidal_artists, FALSE)
        spotify_ascii == get_artist_names(spotify_artists, FALSE)
    IN  \/ tidal_names \cap spotify_names # {}
        \/ tidal_ascii \cap spotify_ascii # {}
        \/ \E t \in tidal_names, s \in spotify_names :
              /\ Len(Join(t)) > 3
              /\ Len(Join(s)) > 3
              /\ Contains(t, s)

\* The three predicates of match_spotify_to_existing_tidal (lines 292-304),
\* which search_tidal_track applies to a search result as its fuzzy match
\* (lines 369-371).
FuzzyMatch(tidal_track, track) ==
    /\ duration_match(tidal_track.duration, track.duration_ms, 2)
    /\ name_match(tidal_track.title, track.name)
    /\ artist_match(tidal_track.artists, track.artists)

match_spotify_to_existing_tidal(track, existing) ==
    IF \E i \in 1..Len(existing) : FuzzyMatch(existing[i], track)
    THEN LET i == CHOOSE k \in 1..Len(existing) :
                      /\ FuzzyMatch(existing[k], track)
                      /\ \A m \in 1..(k - 1) : ~FuzzyMatch(existing[m], track)
         IN  existing[i].id
    ELSE None

(***************************************************************************)
(* SpecMatch: the matcher applied to bounded inputs.                       *)
(***************************************************************************)
MaxTitleLen == 2
MaxSnapshot == 2

TitleTokens == {"sun", "remix", "Remix", "remixed"}

ExtraTitles == { <<"sun", "(", "remix", ")">>, <<"sun", "-", "live">>, <<"yoru">>,
                 <<"sunset">>, <<"(", "sun", ")">> }

MatchTitles == SeqsUpTo(TitleTokens, MaxTitleLen) \cup ExtraTitles

DuaLipa == << <<"dua", "lipa">> >>

MatchSourceTracks ==
    { [name |-> t, artists |-> DuaLipa, duration_ms |-> 203000] : t \in MatchTitles }

\* Target durations on both sides of the two second tolerance.
MatchTargetTracks ==
    { [title |-> t, artists |-> a, duration |-> d] :
        t \in MatchTitles, a \in {DuaLipa, << <<"sun">>, <<"lipa", "&", "sunset">> >>},
        d \in {205, 206} }

MatchTailTracks ==
    { [title |-> <<"sun">>, artists |-> DuaLipa, duration |-> 203],
      [title |-> <<"sun", "remix">>, artists |-> DuaLipa, duration |-> 203] }

\* A snapshot: any first item, then items of MatchTailTracks; an item's id is
\* its position in the snapshot.
MatchSnapshots ==
    { [i \in 1..Len(s) |-> [id |-> i, title |-> s[i].title,
                            artists |-> s[i].artists, duration |-> s[i].duration]] :
        s \in {<<>>} \cup { <<h>> \o t : h \in MatchTargetTracks,
                                         t \in SeqsUpTo(MatchTailTracks, MaxSnapshot - 1) } }

IdleMatch ==
    /\ spotify_track = NoTrack
    /\ existing_tracks = <<>>
    /\ matched_id = None
    /\ m_pc = "idle"

InitMatch ==
    /\ spotify_track \in MatchSourceTracks
    /\ existing_tracks \in MatchSnapshots
    /\ matched_id = None
    /\ m_pc = "call"

\* matched_id = match_spotify_to_existing_tidal(spotify_track, existing_tracks_metadata)
MatchExisting ==
    /\ m_pc = "call"
    /\ matched_id' = match_spotify_to_existing_tidal(spotify_track, existing_tracks)
    /\ m_pc' = "done"
    /\ UNCHANGED <<spotify_track, existing_tracks>>

\* Inputs around the two ends of the duration tolerance: source tracks of
\* 203.000 s and 203.001 s against snapshot items of 200 to 206 s.
BoundSourceTracks ==
    { [name |-> t, artists |-> DuaLipa, duration_ms |-> d] :
        t \in {<<"sun">>, <<"sun", "remix">>}, d \in {203000, 203001} }

BoundTargetTracks ==
    { [title |-> t, artists |-> a, duration |-> d] :
        t \in {<<"sun">>, <<"sun", "remix">>}, a \in {DuaLipa, << <<"yoru">> >>},
        d \in {200, 201, 203, 205, 206} }

BoundSnapshots ==
    { [i \in 1..Len(s) |-> [id |-> i, title |-> s[i].title,
                            artists |-> s[i].artists, duration |-> s[i].duration]] :
        s \in SeqsUpTo(BoundTargetTracks, MaxSnapshot) }

InitBounds ==
    /\ spotify_track \in BoundSourceTracks
    /\ existing_tracks \in BoundSnapshots
    /\ matched_id = None
    /\ m_pc = "call"

(***************************************************************************)
(* playlist.py: duplicate removal.                                         *)
(***************************************************************************)
batch_size == 50
page_limit == 100

\* One page of get_playlist_items: the items at offset .. offset + limit - 1.
Page(items, offset) == SubSeq(items, offset + 1, Min(Len(items), offset + page_limit))

\* Lines 249-252: an item is listed when it has a track with an id; the id of
\* an item without one is None.
HasTrack(item) == item.id # None

\* fetch_playlist_tracks_with_indices: page after page, each listed track
\* recorded with index = offset + page_count, page_count being the number of
\* tracks listed from the page so far.  ok_pages is the number of page
\* requests that succeed before one raises (the loop then breaks).
RECURSIVE FetchPages(_, _, _)
FetchPages(items, offset, ok_pages) ==
    IF ok_pages = 0 THEN <<>>
    ELSE LET page == SelectSeq(Page(items, offset), HasTrack)
             rows == [c \in 1..Len(page) |->
                        [index |-> offset + (c - 1), track_id |-> page[c].id]]
         IN  IF offset + page_limit >= Len(items) THEN rows
             ELSE rows \o FetchPages(items, offset + page_limit, ok_pages - 1)

fetch_playlist_tracks_with_indices(items, ok_pages) == FetchPages(items, 0, ok_pages)

PagesOf(items) == IF Len(items) = 0 THEN 1 ELSE (Len(items) + page_limit - 1) \div page_limit

\* find_duplicate_indices: every listed track whose id was seen before it.
IsLaterOccurrence(tracks, i) == \E j \in 1..(i - 1) : tracks[j].track_id = tracks[i].track_id

IsLastOccurrence_Not(tracks, i) ==
    \E j \in (i + 1)..Len(tracks) : tracks[j].track_id = tracks[i].track_id

RECURSIVE Pick(_, _, _)
Pick(tracks, keep, i) ==
    IF i > Len(tracks) THEN <<>>
    ELSE (IF i \in keep THEN <<tracks[i]>> ELSE <<>>) \o Pick(tracks, keep, i + 1)

find_duplicate_indices_KeepLast(tracks) ==
    Pick(tracks, {i \in 1..Len(tracks) : IsLastOccurrence_Not(tracks, i)}, 1)

find_duplicate_indices(tracks) ==
    Pick(tracks, {i \in 1..Len(tracks) : IsLaterOccurrence(tracks, i)}, 1)

\* duplicates.sort(key=lambda x: x['index'], reverse=True)
RECURSIVE SortByIndex(_, _)
SortByIndex(ds, descending) ==
    IF ds = <<>> THEN <<>>
    ELSE LET k == CHOOSE i \in 1..Len(ds) :
                      \A j \in 1..Len(ds) :
                          IF descending THEN ds[j].index <= ds[i].index
                                        ELSE ds[j].index >= ds[i].index
             rest == [j \in 1..(Len(ds) - 1) |-> IF j < k THEN ds[j] ELSE ds[j + 1]]
         IN  <<ds[k]>> \o SortByIndex(rest, descending)

SortDuplicates_Ascending(ds) == SortByIndex(ds, FALSE)

SortDuplicates(ds) == SortByIndex(ds, TRUE)

\* The server's side of DELETE playlists/{uuid}/items/{i1,i2,...}: the items
\* at the listed zero-based positions are removed together.
RECURSIVE RemoveAt(_, _, _)
RemoveAt(items, positions, i) ==
    IF i > Len(items) THEN <<>>
    ELSE (IF (i - 1) \in positions THEN <<>> ELSE <<items[i]>>) \o RemoveAt(items, positions, i + 1)

ServerDelete(items, indices) == RemoveAt(items, Range(indices), 1)

\* batch = duplicates[i:i + batch_size]; batch_indices = [d['index'] for d in batch]
BatchIndices(ds) == [i \in 1..Min(batch_size, Len(ds)) |-> ds[i].index]

RestAfterBatch(ds) == SubSeq(ds, Min(batch_size, Len(ds)) + 1, Len(ds))

(***************************************************************************)
(* odesli/client.py: OdesliClient._wait_for_rate_limit.  The migrate       *)
(* command builds one OdesliClient (command.py line 548) and hands it to   *)
(* every migration worker (lines 205-213); the client holds no lock.  Time *)
(* is counted in tenths of a second.                                       *)
(***************************************************************************)
rate_limit == 10
window == 600
buffer == 1

RateWorkers == 2
MaxCalls == 6
MaxClock == 1300
TickSteps == {300, 601}

RWorkers == 1..RateWorkers

\* [t for t in self.request_times if now - t < 60]
Prune(times, now) == SelectSeq(times, LAMBDA t : now - t < window)

IdleRate ==
    /\ clock = 0
    /\ request_times = <<>>
    /\ issued = <<>>
    /\ rl_pc = <<>>
    /\ rl_now = <<>>
    /\ rl_wake = <<>>
    /\ rl_calls = <<>>

InitRate ==
    /\ clock = 0
    /\ request_times = <<>>
    /\ issued = <<>>
    /\ rl_pc = [w \in RWorkers |-> "idle"]
    /\ rl_now = [w \in RWorkers |-> 0]
    /\ rl_wake = [w \in RWorkers |-> 0]
    /\ rl_calls = [w \in RWorkers |-> 0]

\* Lines 23-26: read the clock and drop the requests older than a minute.
RL_Enter(w) ==
    /\ rl_pc[w] = "idle"
    /\ rl_calls[w] < MaxCalls
    /\ rl_now' = [rl_now EXCEPT ![w] = clock]
    /\ request_times' = Prune(request_times, clock)
    /\ rl_pc' = [rl_pc EXCEPT ![w] = "check"]
    /\ UNCHANGED <<clock, issued, rl_wake, rl_calls>>

\* Lines 29-35: at the limit, sleep until the oldest request is a minute old.
RL_Check(w) ==
    /\ rl_pc[w] = "check"
    /\ IF Len(request_times) >= rate_limit
          /\ window - (rl_now[w] - request_times[1]) + buffer > 0
       THEN /\ rl_wake' = [rl_wake EXCEPT ![w] =
                              clock + window - (rl_now[w] - request_times[1]) + buffer]
            /\ rl_pc' = [rl_pc EXCEPT ![w] = "sleep"]
       ELSE /\ rl_pc' = [rl_pc EXCEPT ![w] = "append"]
            /\ UNCHANGED rl_wake
    /\ UNCHANGED <<clock, request_times, issued, rl_now, rl_calls>>

\* Lines 36-38: the sleep is over; read the clock and prune again.
RL_Wake(w) ==
    /\ rl_pc[w] = "sleep"
    /\ clock >= rl_wake[w]
    /\ rl_now' = [rl_now EXCEPT ![w] = clock]
    /\ request_times' = Prune(request_times, clock)
    /\ rl_pc' = [rl_pc EXCEPT ![w] = "append"]
    /\ UNCHANGED <<clock, issued, rl_wake, rl_calls>>

\* Line 41, and the request that convert_spotify_to_tidal then makes.
RL_Append(w) ==
    /\ rl_pc[w] = "append"
    /\ request_times' = Append(request_times, clock)
    /\ issued' = Append(issued, clock)
    /\ rl_pc' = [rl_pc EXCEPT ![w] = "idle"]
    /\ rl_calls' = [rl_calls EXCEPT ![w] = @ + 1]
    /\ UNCHANGED <<clock, rl_now, rl_wake>>

\* Time passes: by a step, or up to the end of the earliest sleep.
Tick ==
    /\ \E t \in {clock + d : d \in TickSteps}
              \cup {rl_wake[w] : w \in {v \in RWorkers : rl_pc[v] = "sleep"}} :
          /\ t > clock
          /\ t <= MaxClock
          /\ clock' = t
    /\ UNCHANGED <<request_times, issued, rl_pc, rl_now, rl_wake, rl_calls>>

(***************************************************************************)
(* command.py _run_migration_loop and report.py PlaylistReportCollector:   *)
(* every selected playlist is one task of the migration pool; the tasks    *)
(* record their rows in the one collector of the run, which keys its lists *)
(* by playlist name.  A row carries the task and the track it came from.   *)
(***************************************************************************)
MaxPlaylists == 2
MaxPTracks == 2
MaxWorkers == 2
PlaylistNames == {"Mix", "Chill"}

Tasks == 1..Len(selected_playlists)

Running == {i \in Tasks : par_pc[i] \in {"start", "loop"}}

\* report.py line 327: self._playlists[playlist_name] = []
start_playlist(playlists, playlist_name) ==
    [n \in DOMAIN playlists \cup {playlist_name} |->
        IF n = playlist_name THEN <<>> ELSE playlists[n]]

AppendRow_Front(rows, row) == <<row>> \o rows

\* report.py line 357: self._playlists[playlist_name].append(track)
AppendRow(rows, row) == Append(rows, row)

\* report.py lines 340-357
add_track(playlists, playlist_name, row) ==
    LET present == IF playlist_name \in DOMAIN playlists
                   THEN playlists
                   ELSE start_playlist(playlists, playlist_name)
    IN  [present EXCEPT ![playlist_name] = AppendRow(@, row)]

\* report.py lines 376-389: a CSV per name whose list is not empty
write_reports(playlists) ==
    [n \in {m \in DOMAIN playlists : playlists[m] # <<>>} |-> playlists[n]]

IdlePar ==
    /\ selected_playlists = <<>>
    /\ migration_workers = 0
    /\ par_pc = <<>>
    /\ par_idx = <<>>
    /\ c_playlists = <<>>
    /\ csv_files = <<>>

InitPar ==
    /\ selected_playlists \in
          UNION {[1..n -> [name : PlaylistNames, total : 1..MaxPTracks]] :
                    n \in 1..MaxPlaylists}
    /\ migration_workers \in 1..MaxWorkers
    /\ par_pc = [i \in Tasks |-> "queued"]
    /\ par_idx = [i \in Tasks |-> 0]
    /\ c_playlists = <<>>
    /\ csv_files = <<>>

\* command.py lines 205-225: a free worker takes the next submitted playlist.
P_Begin(i) ==
    /\ par_pc[i] = "queued"
    /\ \A j \in Tasks : j < i => par_pc[j] # "queued"
    /\ Cardinality(Running) < migration_workers
    /\ par_pc' = [par_pc EXCEPT ![i] = "start"]
    /\ UNCHANGED <<selected_playlists, migration_workers, par_idx, c_playlists, csv_files>>

\* command.py lines 796-803: the playlist's list is started once the target
\* playlist is known.
P_StartPlaylist(i) ==
    /\ par_pc[i] = "start"
    /\ c_playlists' = start_playlist(c_playlists, selected_playlists[i].name)
    /\ par_pc' = [par_pc EXCEPT ![i] = "loop"]
    /\ UNCHANGED <<selected_playlists, migration_workers, par_idx, csv_files>>

\* command.py lines 747-793: fetching the source or finding the target failed.
P_Fail(i) ==
    /\ par_pc[i] = "start"
    /\ par_pc' = [par_pc EXCEPT ![i] = "done"]
    /\ UNCHANGED <<selected_playlists, migration_workers, par_idx, c_playlists, csv_files>>

\* command.py lines 839-984: one iteration of the track loop records one row.
P_AddTrack(i) ==
    /\ par_pc[i] = "loop"
    /\ par_idx[i] < selected_playlists[i].total
    /\ c_playlists' = add_track(c_playlists, selected_playlists[i].name,
                                [task |-> i, track |-> par_idx[i] + 1])
    /\ par_idx' = [par_idx EXCEPT ![i] = @ + 1]
    /\ UNCHANGED <<selected_playlists, migration_workers, par_pc, csv_files>>

P_Finish(i) ==
    /\ par_pc[i] = "loop"
    /\ par_idx[i] = selected_playlists[i].total
    /\ par_pc' = [par_pc EXCEPT ![i] = "done"]
    /\ UNCHANGED <<selected_playlists, migration_workers, par_idx, c_playlists, csv_files>>

\* command.py lines 699-700: after the pool is drained the reports are written.
P_Finalize ==
    /\ \A i \in Tasks : par_pc[i] = "done"
    /\ csv_files = <<>>
    /\ c_playlists # <<>>
    /\ csv_files' = write_reports(c_playlists)
    /\ par_pc' = [i \in Tasks |-> "written"]
    /\ UNCHANGED <<selected_playlists, migration_workers, par_idx, c_playlists>>

(***************************************************************************)
(* command.py migrate_playlist: one source playlist migrated into the      *)
(* target playlist of the same title, track by track.  The services are    *)
(* deterministic: the universal-link answer per source track, the result   *)
(* list of the target search and the ids whose add the server rejects are  *)
(* fixed for the whole behaviour, so a second run sees the same answers.   *)
(***************************************************************************)
MaxTracks == 2
MaxRuns == 2

PlaylistName == "Mix"
OdesliError == -1
NoIsrc == "none"

\* The target catalog: the same recording twice (ids 1 and 2, one ISRC, the
\* second with another duration) and its remix.
TidalIds == {1, 2, 3}

TidalCatalog ==
    [id \in TidalIds |->
        CASE id = 1 -> [title |-> <<"sun">>, artists |-> DuaLipa,
                        duration |-> 203, isrc |-> "ISRC-A"]
          [] id = 2 -> [title |-> <<"sun">>, artists |-> DuaLipa,
                        duration |-> 210, isrc |-> "ISRC-A"]
          [] id = 3 -> [title |-> <<"sun", "remix">>, artists |-> DuaLipa,
                        duration |-> 203, isrc |-> "ISRC-R"]]

SourceTracks ==
    { [id |-> 1, name |-> <<"sun">>, artists |-> DuaLipa,
       duration_ms |-> 203000, isrc |-> "ISRC-A"],
      [id |-> 2, name |-> <<"sun", "remix">>, artists |-> DuaLipa,
       duration_ms |-> 203000, isrc |-> NoIsrc] }

SourcePlaylists == UNION {[1..n -> SourceTracks] : n \in 1..MaxTracks}

\* What the universal-link service may answer for a source track.
OdesliAnswers ==
    { f \in [{1, 2} -> {None, OdesliError} \cup TidalIds] :
        /\ f[1] \in {None, OdesliError, 1, 2}
        /\ f[2] \in {None, 3} }

SearchResultLists == { <<>>, <<1, 2, 3>>, <<2, 3, 1>> }

InitialTargets == { <<>>, <<1>>, <<2>>, <<3>>, <<3, 1>> }

\* playlist.py lines 155-168: the metadata recorded for a listed item.
MetadataOf(items) ==
    [i \in 1..Len(items) |->
        [id |-> items[i], title |-> TidalCatalog[items[i]].title,
         artists |-> TidalCatalog[items[i]].artists,
         duration |-> TidalCatalog[items[i]].duration]]

\* tracks.py lines 345-371: the first of the top results that has the ISRC
\* of the source track or passes the fuzzy match.
SearchAccepts(id, track) ==
    \/ track.isrc # NoIsrc /\ TidalCatalog[id].isrc = track.isrc
    \/ FuzzyMatch(TidalCatalog[id], track)

LowerAll(ts) == [i \in 1..Len(ts) |-> Lower(ts[i])]

AppendNew(queries, q) == IF q \in Range(queries) THEN queries ELSE Append(queries, q)

\* tracks.py lines 142-145: a text that normalizes to nothing is used as it
\* is, lower-cased.
NormOrRaw(norm, text) == IF norm = <<>> THEN LowerAll(text) ELSE norm

\* tracks.py lines 148-153: query 1, the full normalized query.
Query1(norm_track, norm_artist) ==
    IF norm_track # <<>> /\ norm_artist # <<>> THEN <<norm_track \o norm_artist>>
    ELSE IF norm_track # <<>> THEN <<norm_track>>
    ELSE IF norm_artist # <<>> THEN <<norm_artist>>
    ELSE <<>>

\* tracks.py lines 156-162: query 2, ASCII only.
Query2(queries, ascii_track, ascii_artist) ==
    IF ascii_track # <<>> /\ ascii_artist # <<>>
    THEN AppendNew(queries, ascii_track \o ascii_artist)
    ELSE IF ascii_artist # <<>> THEN AppendNew(queries, ascii_artist)
    ELSE queries

\* tracks.py lines 165-170: query 3, the first word of the title and the artist.
Query3(queries, norm_track, norm_artist) ==
    IF norm_track # <<>> /\ norm_artist # <<>> /\ Len(Chars(norm_track[1])) > 2
    THEN AppendNew(queries, <<norm_track[1]>> \o norm_artist)
    ELSE queries

\* tracks.py lines 173-176: query 4, the artist alone.
Query4(queries, norm_artist) ==
    IF norm_artist # <<>> THEN AppendNew(queries, norm_artist) ELSE queries

BuildQueries(norm_track, norm_artist, ascii_track, ascii_artist) ==
    Query4(Query3(Query2(Query1(norm_track, norm_artist), ascii_track, ascii_artist),
                  norm_track, norm_artist),
           norm_artist)

\* tracks.py lines 119-178: the queries to try, in order, without repeats.
build_search_queries(track_name, artist_name) ==
    BuildQueries(NormOrRaw(normalize_for_search(track_name, TRUE), track_name),
                 NormOrRaw(normalize_for_search(artist_name, TRUE), artist_name),
                 normalize_for_search(track_name, FALSE),
                 normalize_for_search(artist_name, FALSE))

\* tracks.py lines 345-379: the loop over the queries.  A query that raises
\* finds nothing and the loop goes on; a result listed under an earlier query
\* is not looked at again; the loop ends at the first accepted result.  Gives
\* the id found (or None) and the queries sent.
Reaches_StopOnError(found, ok, n) == \A m \in 1..(n - 1) : found[m] = None /\ ok[m]

\* tracks.py lines 346-376: the loop comes to query n when no earlier query
\* returned an id, whether it listed nothing acceptable or raised (line 374).
Reaches(found, ok, n) == \A m \in 1..(n - 1) : found[m] = None

SearchLoop(top, accepted, ok, queries) ==
    LET tried == [n \in 1..Len(queries) |->
                    IF \E m \in 1..(n - 1) : ok[m] THEN Range(top) ELSE {}]
        hits == [n \in 1..Len(queries) |->
                    IF ok[n] THEN {i \in accepted : top[i] \notin tried[n]} ELSE {}]
        found == [n \in 1..Len(queries) |->
                    IF hits[n] = {} THEN None
                    ELSE top[CHOOSE i \in hits[n] : \A j \in hits[n] : i <= j]]
        sent == {n \in 1..Len(queries) : Reaches(found, ok, n)}
    IN  [id |-> IF \E n \in sent : found[n] # None
                THEN found[CHOOSE n \in sent : found[n] # None]
                ELSE None,
         log |-> [n \in 1..Cardinality(sent) |->
                    [n |-> n, query |-> queries[n], ok |-> ok[n], id |-> found[n]]]]

Accepted(track, top) == {i \in 1..Len(top) : SearchAccepts(top[i], track)}

SearchRun(track, top, failing, queries) ==
    SearchLoop(top, Accepted(track, top),
               [n \in 1..Len(queries) |-> queries[n] \notin failing], queries)

\* tracks.py lines 312-381; without a name or an artist nothing is searched.
SearchOf(track, results, failing) ==
    IF track.name = <<>> \/ track.artists = <<>> THEN [id |-> None, log |-> <<>>]
    ELSE SearchRun(track, SubSeq(results, 1, Min(Len(results), 10)), failing,
                   build_search_queries(track.name, track.artists[1]))

search_tidal_track(track, results, failing) == SearchOf(track, results, failing).id

\* The queries of one search, as they enter the history of the run.
Logged(log, k, rescue) ==
    [i \in 1..Len(log) |->
        [track |-> k, rescue |-> rescue, n |-> log[i].n, query |-> log[i].query,
         ok |-> log[i].ok, id |-> log[i].id]]

\* The queries on which get_search may raise: those built for the plain title.
FailableQueries == Range(build_search_queries(<<"sun">>, DuaLipa[1]))

\* api.py lines 353-366 with onDuplicates=SKIP (tracks.py line 389): the
\* server accepts the request and leaves out an id the playlist already has.
ServerAdd(items, id) == IF id \in Range(items) THEN items ELSE Append(items, id)

\* api.py lines 379-406: the add returns on a 2xx answer and raises otherwise.
AddOk(id) == id \notin unavailable

MarkAdded_Not(ids, id) == ids

\* command.py lines 912 and 936: existing_track_ids.add(tidal_id)
MarkAdded(ids, id) == ids \cup {id}

NeedsFailedRow_Always(added) == TRUE

\* command.py line 956: if not added
NeedsFailedRow(added) == ~added

RescueApplies_Never(src) == FALSE

\* command.py line 927: if source == "odesli"
RescueApplies(src) == src = "odesli"

AfterMetadataMatch_NoContinue(matched) == "odesli"

\* command.py lines 854-870: a hit records the row and continues with the
\* next track; a miss goes on to the universal-link step.
AfterMetadataMatch(matched) == IF matched # None THEN "next" ELSE "odesli"

Row(k, status, src, id) ==
    [track |-> k, status |-> status, source |-> src, tidal_id |-> id]

Call(kind, k, id, known, ok, rescue, odesli_id) ==
    [kind |-> kind, track |-> k, id |-> id, known |-> known, ok |-> ok,
     rescue |-> rescue, odesli_id |-> odesli_id]

\* The rows the collector holds for the playlist.
Rows == IF PlaylistName \in DOMAIN c_playlists THEN c_playlists[PlaylistName] ELSE <<>>

\* The loop moves to the next track (locals reset, lines 848-850) or ends.
Advance ==
    /\ track_idx' = track_idx + 1
    /\ tidal_id' = None
    /\ source' = ""
    /\ mg_pc' = IF track_idx < Len(spotify_tracks) THEN "step0" ELSE "summary"

IdleMig ==
    /\ run = 0
    /\ mg_pc = "idle"
    /\ spotify_tracks = <<>>
    /\ odesli_answer = <<>>
    /\ search_results = <<>>
    /\ failing_queries = {}
    /\ unavailable = {}
    /\ tidal_exists = FALSE
    /\ tidal_items = <<>>
    /\ existing_track_ids = {}
    /\ existing_tracks_metadata = <<>>
    /\ track_idx = 0
    /\ tidal_id = None
    /\ source = ""
    /\ calls = <<>>
    /\ query_log = <<>>
    /\ items_at_start = 0

InitMig ==
    /\ run = 1
    /\ mg_pc = "start"
    /\ spotify_tracks \in SourcePlaylists
    /\ odesli_answer \in OdesliAnswers
    /\ search_results \in SearchResultLists
    /\ failing_queries \in SUBSET FailableQueries
    /\ unavailable \in SUBSET TidalIds
    /\ tidal_exists \in BOOLEAN
    /\ tidal_items \in IF tidal_exists THEN InitialTargets ELSE {<<>>}
    /\ existing_track_ids = {}
    /\ existing_tracks_metadata = <<>>
    /\ track_idx = 0
    /\ tidal_id = None
    /\ source = ""
    /\ calls = <<>>
    /\ query_log = <<>>
    /\ items_at_start = 0

\* command.py lines 775-803: find the target playlist by title and list its
\* items, or create it (playlist.py lines 13-108); then start the report.
M_FindOrReuse ==
    /\ mg_pc = "start"
    /\ tidal_exists' = TRUE
    /\ existing_track_ids' = IF tidal_exists THEN Range(tidal_items) ELSE {}
    /\ existing_tracks_metadata' = IF tidal_exists THEN MetadataOf(tidal_items) ELSE <<>>
    /\ c_playlists' = start_playlist(c_playlists, PlaylistName)
    /\ items_at_start' = Len(tidal_items)
    /\ calls' = <<>>
    /\ query_log' = <<>>
    /\ track_idx' = 1
    /\ tidal_id' = None
    /\ source' = ""
    /\ mg_pc' = "step0"
    /\ UNCHANGED <<run, spotify_tracks, odesli_answer, search_results, failing_queries, unavailable,
                   tidal_items, parRest>>

\* command.py lines 852-870: step 0, the metadata match against the list
\* fetched with the playlist.
M_MetadataMatch ==
    /\ mg_pc = "step0"
    /\ LET matched == match_spotify_to_existing_tidal(spotify_tracks[track_idx],
                                                      existing_tracks_metadata)
       IN  /\ c_playlists' =
                  IF matched # None
                  THEN add_track(c_playlists, PlaylistName,
                                 Row(track_idx, "skipped", "metadata_match", matched))
                  ELSE c_playlists
           /\ IF AfterMetadataMatch(matched) = "next"
              THEN Advance
              ELSE /\ mg_pc' = "odesli"
                   /\ UNCHANGED <<track_idx, tidal_id, source>>
    /\ UNCHANGED <<run, spotify_tracks, odesli_answer, search_results, failing_queries, unavailable,
                   tidal_exists, tidal_items, existing_track_ids,
                   existing_tracks_metadata, calls, query_log, items_at_start, parRest>>

\* command.py lines 872-878: step 1, the universal-link service; an error
\* counts as no answer.
M_Odesli ==
    /\ mg_pc = "odesli"
    /\ LET answer == odesli_answer[spotify_tracks[track_idx].id]
           id == IF answer = OdesliError THEN None ELSE answer
       IN  /\ calls' = Append(calls, Call("odesli", track_idx, id, FALSE,
                                          answer # OdesliError, FALSE, None))
           /\ tidal_id' = id
           /\ source' = IF id # None THEN "odesli" ELSE source
           /\ mg_pc' = IF id # None THEN "add" ELSE "search"
    /\ UNCHANGED <<run, spotify_tracks, odesli_answer, search_results, failing_queries, unavailable,
                   tidal_exists, tidal_items, existing_track_ids,
                   existing_tracks_metadata, track_idx, query_log, items_at_start, parVars>>

\* command.py lines 880-888 and 969-981: step 2, the target search; a track
\* without an id after it is recorded not_found.
SearchStep(found) ==
    /\ calls' = Append(calls, Call("search", track_idx, found.id, FALSE, TRUE,
                                   FALSE, tidal_id))
    /\ query_log' = query_log \o Logged(found.log, track_idx, FALSE)
    /\ IF found.id # None
       THEN /\ tidal_id' = found.id
            /\ source' = "tidal_search"
            /\ mg_pc' = "add"
            /\ UNCHANGED <<track_idx, c_playlists>>
       ELSE /\ c_playlists' = add_track(c_playlists, PlaylistName,
                                        Row(track_idx, "not_found", "", None))
            /\ Advance

M_Search ==
    /\ mg_pc = "search"
    /\ SearchStep(SearchOf(spotify_tracks[track_idx], search_results, failing_queries))
    /\ UNCHANGED <<run, spotify_tracks, odesli_answer, search_results, failing_queries, unavailable,
                   tidal_exists, tidal_items, existing_track_ids,
                   existing_tracks_metadata, items_at_start, parRest>>

\* command.py lines 891-926 and 956-968: step 3, skip an id that is known to
\* be in the playlist, else add it; a rejected add of a universal-link id
\* leads to the rescue, any other rejected add is recorded failed_to_add.
M_Add ==
    /\ mg_pc = "add"
    /\ IF tidal_id \in existing_track_ids
       THEN /\ c_playlists' = add_track(c_playlists, PlaylistName,
                                 Row(track_idx, "skipped",
                                     IF source = "" THEN "existing" ELSE source, tidal_id))
            /\ Advance
            /\ UNCHANGED <<tidal_items, existing_track_ids, calls>>
       ELSE /\ calls' = Append(calls, Call("add", track_idx, tidal_id, FALSE,
                                           AddOk(tidal_id), FALSE, None))
            /\ IF AddOk(tidal_id)
               THEN /\ tidal_items' = ServerAdd(tidal_items, tidal_id)
                    /\ existing_track_ids' = MarkAdded(existing_track_ids, tidal_id)
                    /\ c_playlists' = add_track(c_playlists, PlaylistName,
                                         Row(track_idx, "added",
                                             IF source = "" THEN "unknown" ELSE source,
                                             tidal_id))
                    /\ Advance
               ELSE IF RescueApplies(source)
               THEN /\ mg_pc' = "rescue"
                    /\ UNCHANGED <<tidal_items, existing_track_ids, c_playlists,
                                   track_idx, tidal_id, source>>
               ELSE /\ c_playlists' =
                          IF NeedsFailedRow(FALSE)
                          THEN add_track(c_playlists, PlaylistName,
                                   Row(track_idx, "failed_to_add",
                                       IF source = "" THEN "unknown" ELSE source, tidal_id))
                          ELSE c_playlists
                    /\ Advance
                    /\ UNCHANGED <<tidal_items, existing_track_ids>>
    /\ UNCHANGED <<run, spotify_tracks, odesli_answer, search_results, failing_queries, unavailable,
                   tidal_exists, existing_tracks_metadata, query_log, items_at_start, parRest>>

\* command.py lines 927-968: step 4, the rescue after a rejected add of a
\* universal-link id: search again and add a different id straight away.
RescueStep(found, fallback_id) ==
    LET retry == fallback_id # None /\ fallback_id # tidal_id
        added == retry /\ AddOk(fallback_id)
        searched == Append(calls, Call("search", track_idx, fallback_id, FALSE,
                                       TRUE, TRUE, tidal_id))
        with_added ==
            IF added
            THEN add_track(c_playlists, PlaylistName,
                     Row(track_idx, "added", "tidal_search_fallback", fallback_id))
            ELSE c_playlists
    IN  /\ query_log' = query_log \o Logged(found.log, track_idx, TRUE)
        /\ calls' = IF retry
                    THEN Append(searched,
                             Call("add", track_idx, fallback_id,
                                  fallback_id \in existing_track_ids,
                                  AddOk(fallback_id), TRUE, tidal_id))
                    ELSE searched
        /\ tidal_items' = IF added THEN ServerAdd(tidal_items, fallback_id)
                          ELSE tidal_items
        /\ existing_track_ids' = IF added THEN MarkAdded(existing_track_ids, fallback_id)
                                 ELSE existing_track_ids
        /\ c_playlists' =
               IF NeedsFailedRow(added)
               THEN add_track(with_added, PlaylistName,
                        Row(track_idx, "failed_to_add",
                            IF added THEN "tidal_search" ELSE "odesli",
                            IF added THEN fallback_id ELSE tidal_id))
               ELSE with_added

RescueWith(found) == RescueStep(found, found.id)

M_Rescue ==
    /\ mg_pc = "rescue"
    /\ RescueWith(SearchOf(spotify_tracks[track_idx], search_results, failing_queries))
    /\ Advance
    /\ UNCHANGED <<run, spotify_tracks, odesli_answer, search_results, failing_queries, unavailable,
                   tidal_exists, existing_tracks_metadata, items_at_start, parRest>>

\* command.py lines 986-1061: the summary, the description update and the
\* return; none of them touches the playlist's items or the report.
M_Finish ==
    /\ mg_pc = "summary"
    /\ mg_pc' = "done"
    /\ UNCHANGED <<run, spotify_tracks, odesli_answer, search_results, failing_queries, unavailable,
                   tidal_exists, tidal_items, existing_track_ids,
                   existing_tracks_metadata, track_idx, tidal_id, source, calls, query_log,
                   items_at_start, parVars>>

\* The command is run again on the same source playlist: a new process, with
\* a new collector (command.py line 556) and nothing kept but the server.
M_Remigrate ==
    /\ mg_pc = "done"
    /\ run < MaxRuns
    /\ run' = run + 1
    /\ mg_pc' = "start"
    /\ c_playlists' = <<>>
    /\ existing_track_ids' = {}
    /\ existing_tracks_metadata' = <<>>
    /\ track_idx' = 0
    /\ calls' = <<>>
    /\ query_log' = <<>>
    /\ UNCHANGED <<spotify_tracks, odesli_answer, search_results, failing_queries, unavailable,
                   tidal_exists, tidal_items, tidal_id, source, items_at_start, parRest>>

(***************************************************************************)
(* SpecDedup: remove_duplicates_from_playlist on one playlist.             *)
(***************************************************************************)
MaxShort == 5
MaxPeriod == 2

DedupIds == {100, 200, 300}

\* Playlists long enough for several DELETE batches and several pages.
LongPlaylists ==
    { [i \in 1..n |-> 100 * (((i - 1) % k) + 1)] :
        n \in {batch_size + 2, 2 * batch_size + 2}, k \in 1..MaxPeriod }

DedupPlaylists == SeqsUpTo(DedupIds, MaxShort) \cup LongPlaylists

IdleDedup ==
    /\ dd_initial = <<>>
    /\ dd_pc = "idle"
    /\ dry_run = FALSE
    /\ tracks_with_indices = "unset"
    /\ dd_items = <<>>
    /\ duplicates = <<>>
    /\ dd_sent = <<>>
    /\ dd_failed = FALSE

InitDedup ==
    /\ dd_initial \in DedupPlaylists
    /\ dd_pc = "start"
    /\ dry_run \in BOOLEAN
    /\ tracks_with_indices = "unset"
    /\ dd_items = [i \in 1..Len(dd_initial) |-> [pos |-> i - 1, id |-> dd_initial[i]]]
    /\ duplicates = <<>>
    /\ dd_sent = <<>>
    /\ dd_failed = FALSE

\* Playlists with items that have no usable track.
MaxNullLen == 4

NullPlaylists ==
    {p \in SeqsUpTo({None, 100, 200}, MaxNullLen) : \E i \in DOMAIN p : p[i] = None}

InitNulls ==
    /\ dd_initial \in NullPlaylists
    /\ dd_pc = "start"
    /\ dry_run \in BOOLEAN
    /\ tracks_with_indices = "unset"
    /\ dd_items = [i \in 1..Len(dd_initial) |-> [pos |-> i - 1, id |-> dd_initial[i]]]
    /\ duplicates = <<>>
    /\ dd_sent = <<>>
    /\ dd_failed = FALSE

\* Lines 312-343: list the playlist, find the duplicates, return early when
\* there is nothing to do or on a dry run, otherwise sort for deletion.
DD_Fetch ==
    /\ dd_pc = "start"
    /\ \E ok_pages \in 0..PagesOf(dd_items) :
         LET listing == fetch_playlist_tracks_with_indices(dd_items, ok_pages)
             dups    == find_duplicate_indices(listing)
         IN  /\ tracks_with_indices' = listing
             /\ dd_failed' = (ok_pages < PagesOf(dd_items))
             /\ IF listing = <<>> \/ dups = <<>> \/ dry_run
                THEN /\ dd_pc' = "done"
                     /\ duplicates' = <<>>
                ELSE /\ dd_pc' = "delete"
                     /\ duplicates' = SortDuplicates(dups)
    /\ UNCHANGED <<dd_initial, dry_run, dd_items, dd_sent>>

\* Lines 349-364: one batch, accepted by the server.
DD_DeleteBatchOk ==
    /\ dd_pc = "delete"
    /\ dd_items' = ServerDelete(dd_items, BatchIndices(duplicates))
    /\ dd_sent' = Append(dd_sent, [indices |-> BatchIndices(duplicates), ok |-> TRUE])
    /\ duplicates' = RestAfterBatch(duplicates)
    /\ dd_pc' = IF RestAfterBatch(duplicates) = <<>> THEN "done" ELSE "delete"
    /\ UNCHANGED <<dd_initial, dry_run, tracks_with_indices, dd_failed>>

\* Lines 365-367: delete_playlist_tracks raised; the loop goes on.
DD_DeleteBatchFail ==
    /\ dd_pc = "delete"
    /\ dd_sent' = Append(dd_sent, [indices |-> BatchIndices(duplicates), ok |-> FALSE])
    /\ duplicates' = RestAfterBatch(duplicates)
    /\ dd_pc' = IF RestAfterBatch(duplicates) = <<>> THEN "done" ELSE "delete"
    /\ UNCHANGED <<dd_initial, dry_run, tracks_with_indices, dd_items, dd_failed>>

(***************************************************************************)
(* command.py spotify_to_tidal and _run_migration_loop with downloader.py  *)
(* PlaylistDownloader: the pool migrates the selected playlists, every     *)
(* migrated playlist is handed to the downloader, the results of the          *)
(* downloads are applied to the reports and the CSVs are written.  The     *)
(* playlists have distinct names here; a row carries its task, its track,  *)
(* its migration outcome and its download outcome.                         *)
(***************************************************************************)
MaxRunPlaylists == 2
MaxIdlePolls == 1

\* command.py line 568: max_workers=2
max_workers == 2

RunNames == <<"Mix", "Chill", "Focus">>

\* What migrate_playlist meets in a playlist: the fetch of the source fails,
\* find-or-create of the target fails, an exception escapes the track loop,
\* or the tracks are processed with the given outcomes.
PlaylistKinds ==
    {[fate |-> "fetch_fails", outcomes |-> <<>>],
     [fate |-> "find_fails", outcomes |-> <<>>],
     [fate |-> "raises", outcomes |-> <<>>],
     [fate |-> "ok", outcomes |-> <<"added", "skipped", "not_found", "failed_to_add">>],
     [fate |-> "ok", outcomes |-> <<"skipped">>],
     [fate |-> "ok", outcomes |-> <<"not_found">>]}

\* The playlist as selected: tracks.total comes from the listing of the
\* source playlists and is known whatever happens later.
SelectedPlaylist(i, kind) ==
    [name |-> RunNames[i],
     total |-> IF kind.outcomes = <<>> THEN 2 ELSE Len(kind.outcomes),
     fate |-> kind.fate,
     outcomes |-> kind.outcomes]

\* report.py lines 218-229: a new report has download status not_attempted.
TrackReport(i, k, status) ==
    [task |-> i, track |-> k, status |-> status, download_status |-> "not_attempted"]

\* command.py lines 839-984 for a whole playlist: one row per track.
RECURSIVE RecordTracks(_, _, _, _)
RecordTracks(playlists, i, outcomes, k) ==
    IF k > Len(outcomes) THEN playlists
    ELSE RecordTracks(add_track(playlists, RunNames[i], TrackReport(i, k, outcomes[k])),
                      i, outcomes, k + 1)

\* command.py lines 1024-1047: migrate_playlist returns None when nothing was
\* added and the target playlist is empty, the playlist's id otherwise.  A
\* playlist without added and skipped tracks stands for an empty target.
Migrated(outcomes) == \E k \in DOMAIN outcomes : outcomes[k] \in {"added", "skipped"}

\* report.py line 366: migration_status == "found" or migration_status == "added"
MarkedStatuses == {"found", "added"}

\* report.py lines 359-367
mark_playlist_downloaded(playlists, playlist_name, success) ==
    IF playlist_name \notin DOMAIN playlists THEN playlists
    ELSE [playlists EXCEPT ![playlist_name] =
             [k \in DOMAIN @ |->
                 IF @[k].status \in MarkedStatuses
                 THEN [@[k] EXCEPT !.download_status =
                          IF success THEN "downloaded" ELSE "failed"]
                 ELSE @[k]]]

\* command.py lines 695-696: the results are applied one after the other.
RECURSIVE MarkAll(_, _)
MarkAll(playlists, rs) ==
    IF rs = <<>> THEN playlists
    ELSE MarkAll(mark_playlist_downloaded(playlists, rs[1].name, rs[1].success), Tail(rs))

\* downloader.py line 136: the tuple a download returns.
DownloadResult(i, success) == [task |-> i, name |-> RunNames[i], success |-> success]

Finished(i) == dl_state[i] \in {"ok", "failed"}

NoWait == [active |-> FALSE]

\* downloader.py lines 194-195: the frame of a call of wait_for_completion.
NewWait(on_progress) ==
    [active |-> TRUE,
     on_progress |-> on_progress,
     submitted |-> {i \in Tasks : dl_state[i] # "none"},
     results |-> <<>>,
     remaining_futures |-> futures,
     iterations |-> 0,
     idle |-> 0,
     progress |-> 0]

\* All orders in which the futures of a set can be visited (line 207).
Orders(S) == {s \in SeqsUpTo(S, Cardinality(S)) : Range(s) = S /\ Len(s) = Cardinality(S)}

IdleRun ==
    /\ options = <<>>
    /\ main_pc = "idle"
    /\ text_logs = <<>>
    /\ futures = <<>>
    /\ queued_playlists = <<>>
    /\ dl_state = <<>>
    /\ wfc = NoWait
    /\ wait_log = <<>>
    /\ dl_results = <<>>
    /\ applied = <<>>

InitRun ==
    /\ selected_playlists \in
          UNION {{[i \in 1..n |-> SelectedPlaylist(i, kinds[i])] :
                     kinds \in [1..n -> PlaylistKinds]} : n \in 1..MaxRunPlaylists}
    /\ migration_workers \in 1..MaxWorkers
    /\ options \in [download : BOOLEAN, parallel_download : BOOLEAN, fancy_ui : BOOLEAN]
    /\ par_pc = [i \in Tasks |-> "queued"]
    /\ par_idx = [i \in Tasks |-> 0]
    /\ c_playlists = <<>>
    /\ csv_files = <<>>
    /\ main_pc = "loop"
    /\ text_logs = <<>>
    /\ futures = <<>>
    /\ queued_playlists = <<>>
    /\ dl_state = [i \in Tasks |-> "none"]
    /\ wfc = NoWait
    /\ wait_log = <<>>
    /\ dl_results = <<>>
    /\ applied = <<>>

\* command.py lines 205-225: a free worker of the pool, or the loop of the
\* sequential mode, takes the next playlist.
R_Begin(i) ==
    /\ main_pc = "loop"
    /\ P_Begin(i)
    /\ UNCHANGED <<options, main_pc, text_logs, futures, queued_playlists, dl_state,
                   wfc, wait_log, dl_results, applied>>

\* write_log_file (playlist.py lines 199-213) replaces the playlist's log.
WriteLog(logs, name, entry) ==
    [n \in DOMAIN logs \cup {name} |-> IF n = name THEN entry ELSE logs[n]]

\* downloader.py lines 63-77, add_playlist
R_AddPlaylist(i) ==
    IF ~options.download
    THEN UNCHANGED <<futures, queued_playlists, dl_state>>
    ELSE IF options.parallel_download
    THEN /\ futures' = Append(futures, i)
         /\ dl_state' = [dl_state EXCEPT ![i] = "submitted"]
         /\ UNCHANGED queued_playlists
    ELSE /\ queued_playlists' = Append(queued_playlists, i)
         /\ dl_state' = [dl_state EXCEPT ![i] = "queued"]
         /\ UNCHANGED futures

\* command.py lines 194-202 and 224-225: process_with_cleanup raises again what
\* process_single_playlist raised; the pool keeps it in the future (lines
\* 216-221), the loop of the sequential mode lets it through.
AfterRaise(workers) == IF workers > 1 THEN "loop" ELSE "crashed"

\* command.py lines 117-192 with migrate_playlist (lines 703-1061): one playlist
\* is fetched, its target found or created, its tracks processed, and the
\* migrated playlist is handed to the downloader.
R_Process(i) ==
    /\ par_pc[i] = "start"
    /\ LET p == selected_playlists[i]
       IN  CASE p.fate = "fetch_fails" ->
                  /\ text_logs' = WriteLog(text_logs, p.name, "ERROR: Failed to fetch tracks")
                  /\ par_pc' = [par_pc EXCEPT ![i] = "done"]
                  /\ UNCHANGED <<c_playlists, main_pc, futures, queued_playlists, dl_state>>
             [] p.fate = "find_fails" ->
                  /\ text_logs' = WriteLog(text_logs, p.name,
                                           "ERROR: Failed to create/find Tidal playlist")
                  /\ par_pc' = [par_pc EXCEPT ![i] = "done"]
                  /\ UNCHANGED <<c_playlists, main_pc, futures, queued_playlists, dl_state>>
             [] p.fate = "raises" ->
                  /\ c_playlists' = start_playlist(c_playlists, p.name)
                  /\ par_pc' = [par_pc EXCEPT ![i] = "raised"]
                  /\ main_pc' = AfterRaise(migration_workers)
                  /\ UNCHANGED <<text_logs, futures, queued_playlists, dl_state>>
             [] p.fate = "ok" ->
                  /\ c_playlists' = RecordTracks(start_playlist(c_playlists, p.name),
                                                 i, p.outcomes, 1)
                  /\ text_logs' = WriteLog(text_logs, p.name, "SUMMARY")
                  /\ par_pc' = [par_pc EXCEPT ![i] = "done"]
                  /\ IF Migrated(p.outcomes)
                     THEN R_AddPlaylist(i)
                     ELSE UNCHANGED <<futures, queued_playlists, dl_state>>
                  /\ UNCHANGED main_pc
    /\ UNCHANGED <<selected_playlists, migration_workers, par_idx, csv_files, options,
                   wfc, wait_log, dl_results, applied>>

\* downloader.py line 61 and lines 73, 79: a worker of the download pool takes
\* a submitted playlist.
D_Start(i) ==
    /\ dl_state[i] = "submitted"
    /\ Cardinality({j \in Tasks : dl_state[j] = "running"}) < max_workers
    /\ dl_state' = [dl_state EXCEPT ![i] = "running"]
    /\ UNCHANGED <<parVars, options, main_pc, text_logs, futures, queued_playlists,
                   wfc, wait_log, dl_results, applied>>

\* downloader.py lines 79-156: the download of the playlist ends, well or not.
D_Finish(i) ==
    /\ dl_state[i] = "running"
    /\ \E success \in BOOLEAN :
          dl_state' = [dl_state EXCEPT ![i] = IF success THEN "ok" ELSE "failed"]
    /\ UNCHANGED <<parVars, options, main_pc, text_logs, futures, queued_playlists,
                   wfc, wait_log, dl_results, applied>>

\* command.py lines 204-233: the pool is drained; under the live UI with
\* parallel downloads the loop waits for the downloads before it returns.
R_LoopEnd ==
    /\ main_pc = "loop"
    /\ \A i \in Tasks : par_pc[i] \in {"done", "raised"}
    /\ IF options.fancy_ui /\ options.download /\ options.parallel_download
       THEN /\ main_pc' = "ui_wait"
            /\ wfc' = NewWait(TRUE)
       ELSE /\ main_pc' = "handle"
            /\ UNCHANGED wfc
    /\ UNCHANGED <<parVars, options, text_logs, futures, queued_playlists, dl_state,
                   wait_log, dl_results, applied>>

\* downloader.py lines 197-217: one iteration of the loop of
\* wait_for_completion; wait() returns the futures that are finished, or none
\* when the poll interval has passed.
W_Poll ==
    /\ main_pc \in {"ui_wait", "wait"}
    /\ wfc.remaining_futures # <<>>
    /\ LET done == {i \in Range(wfc.remaining_futures) : Finished(i)}
       IN  /\ done = {} => wfc.idle < MaxIdlePolls
           /\ \E order \in Orders(done) :
                 wfc' = [wfc EXCEPT
                    !.remaining_futures = SelectSeq(@, LAMBDA i : i \notin done),
                    !.results = @ \o [k \in DOMAIN order |->
                                         DownloadResult(order[k], dl_state[order[k]] = "ok")],
                    !.iterations = @ + 1,
                    !.idle = IF done = {} THEN @ + 1 ELSE @,
                    !.progress = IF wfc.on_progress THEN @ + 1 ELSE @]
    /\ UNCHANGED <<parVars, options, main_pc, text_logs, futures, queued_playlists, dl_state,
                   wait_log, dl_results, applied>>

\* downloader.py lines 197 and 219-220: no future remains, the list of futures
\* is cleared and the results are returned; the call of command.py line 229
\* drops them, the call of line 650 keeps them.
W_Return ==
    /\ main_pc \in {"ui_wait", "wait"}
    /\ wfc.remaining_futures = <<>>
    /\ futures' = <<>>
    /\ wait_log' = Append(wait_log, wfc)
    /\ wfc' = NoWait
    /\ IF main_pc = "ui_wait"
       THEN main_pc' = "handle" /\ UNCHANGED dl_results
       ELSE main_pc' = "mark" /\ dl_results' = wfc.results
    /\ UNCHANGED <<parVars, options, text_logs, queued_playlists, dl_state, applied>>

\* downloader.py lines 158-171, download_queued: the queued playlists are
\* downloaded one after the other.
download_queued(state, success) ==
    [i \in DOMAIN state |->
        IF i \in Range(queued_playlists)
        THEN (IF success[i] THEN "ok" ELSE "failed")
        ELSE state[i]]

\* command.py lines 636-692: the downloads are waited for (parallel) or made
\* now (sequential); without downloads the reports are written at once.
R_HandleDownloads ==
    /\ main_pc = "handle"
    /\ IF options.download /\ \E i \in Tasks : par_pc[i] = "done" /\ Migrated(selected_playlists[i].outcomes)
       THEN IF options.parallel_download
            THEN /\ main_pc' = "wait"
                 /\ wfc' = NewWait(FALSE)
                 /\ UNCHANGED <<dl_state, queued_playlists>>
            ELSE /\ \E success \in [Tasks -> BOOLEAN] :
                       dl_state' = download_queued(dl_state, success)
                 /\ queued_playlists' = <<>>
                 /\ main_pc' = "mark"
                 /\ UNCHANGED wfc
       ELSE /\ main_pc' = "finalize"
            /\ UNCHANGED <<dl_state, queued_playlists, wfc>>
    /\ UNCHANGED <<parVars, options, text_logs, futures, wait_log, dl_results, applied>>

\* command.py lines 695-696: for uuid, name, success, _ in results if
\* PARALLEL_DOWNLOAD else []
ResultsToApply(parallel_download, rs) == IF parallel_download THEN rs ELSE <<>>

\* command.py lines 692-696: the downloader is shut down and the results are
\* applied to the reports.
R_Mark ==
    /\ main_pc = "mark"
    /\ LET rs == ResultsToApply(options.parallel_download, dl_results)
       IN  /\ c_playlists' = MarkAll(c_playlists, rs)
           /\ applied' = applied \o rs
    /\ main_pc' = "finalize"
    /\ UNCHANGED <<parRest, options, text_logs, futures, queued_playlists, dl_state,
                   wfc, wait_log, dl_results>>

\* command.py lines 699-700: the CSV reports are written.
R_Finalize ==
    /\ main_pc = "finalize"
    /\ csv_files' = write_reports(c_playlists)
    /\ main_pc' = "end"
    /\ UNCHANGED <<selected_playlists, migration_workers, par_pc, par_idx, c_playlists,
                   options, text_logs, futures, queued_playlists, dl_state,
                   wfc, wait_log, dl_results, applied>>

(***************************************************************************)
(* downloader.py PlaylistDownloader._download_playlist: one playlist is    *)
(* downloaded by one subprocess.  An output stream is a sequence of lines; *)
(* a line is its text without surrounding blanks and the number of its     *)
(* characters; a message is the lines it is made of and its length.        *)
(***************************************************************************)
MaxLines == 2

\* downloader.py line 98: max(600, track_count * 30)
min_timeout == 600
seconds_per_track == 30
\* downloader.py line 100
default_timeout == 7200
\* downloader.py lines 122-126: [:200]
message_limit == 200

TrackCounts == {-1, 0, 1, 20, 21}

\* How long the subprocess would run if it were left alone, in seconds.
Durations == {100, 620, 8000}

ReturnCodes == {0, 1, 2}

BlankLine == [text |-> "", len |-> 0]

OutputLines ==
    {BlankLine,
     [text |-> "Error: track unavailable", len |-> 24],
     [text |-> "fatal ERROR while writing the stream ...", len |-> 250],
     [text |-> "done", len |-> 4],
     [text |-> "Downloading playlist ...", len |-> 300]}

\* The pairs (stdout, stderr) of at most MaxLines lines together.
Outputs ==
    {o \in SeqsUpTo(OutputLines, MaxLines) \X SeqsUpTo(OutputLines, MaxLines) :
        Len(o[1]) + Len(o[2]) <= MaxLines}

\* str.lower() on the texts above.
LowerText(text) ==
    CASE text = "Error: track unavailable" -> "error: track unavailable"
      [] text = "fatal ERROR while writing the stream ..." ->
             "fatal error while writing the stream ..."
      [] text = "Downloading playlist ..." -> "downloading playlist ..."
      [] OTHER -> text

\* 'error' in s, for the lower-case texts above.
ContainsError(text) ==
    text \in {"error: track unavailable", "fatal error while writing the stream ..."}

\* downloader.py line 120: 'error' in l.lower()
HasErrorWord(line) == ContainsError(LowerText(line.text))

\* downloader.py line 120: the stripped lines of stdout and stderr, in this
\* order, that are not empty and contain 'error'.
error_lines(stdout, stderr) ==
    SelectSeq(stdout \o stderr, LAMBDA l : l.len > 0 /\ HasErrorWord(l))

\* str.strip() on a stream: the blank lines at both ends go.
RECURSIVE DropLeadingBlank(_)
DropLeadingBlank(ls) ==
    IF ls # <<>> /\ ls[1].len = 0 THEN DropLeadingBlank(Tail(ls)) ELSE ls

RECURSIVE DropTrailingBlank(_)
DropTrailingBlank(ls) ==
    IF ls # <<>> /\ ls[Len(ls)].len = 0
    THEN DropTrailingBlank(SubSeq(ls, 1, Len(ls) - 1))
    ELSE ls

Strip(ls) == DropTrailingBlank(DropLeadingBlank(ls))

RECURSIVE SumLen(_)
SumLen(ls) == IF ls = <<>> THEN 0 ELSE ls[1].len + SumLen(Tail(ls))

\* The characters of a stream: its lines and the newlines between them.
StreamLen(ls) == IF ls = <<>> THEN 0 ELSE SumLen(ls) + Len(ls) - 1

Texts(ls) == [k \in DOMAIN ls |-> ls[k].text]

Message(text, len) == [text |-> text, len |-> len]

\* [:200]
Truncate(message) == [message EXCEPT !.len = Min(@, message_limit)]

\* f"Exit code {result.returncode}"
ExitCodeMessage(returncode) == Message(<<"Exit code", returncode>>, 11)

FailureMessage_StderrFirst(returncode, stdout, stderr) ==
    IF Strip(stderr) # <<>>
    THEN Truncate(Message(Texts(Strip(stderr)), StreamLen(Strip(stderr))))
    ELSE ExitCodeMessage(returncode)

\* downloader.py lines 119-128
FailureMessage(returncode, stdout, stderr) ==
    IF error_lines(stdout, stderr) # <<>>
    THEN Truncate(Message(<<error_lines(stdout, stderr)[1].text>>,
                          error_lines(stdout, stderr)[1].len))
    ELSE IF Strip(stderr) # <<>>
    THEN Truncate(Message(Texts(Strip(stderr)), StreamLen(Strip(stderr))))
    ELSE IF Strip(stdout) # <<>>
    THEN Truncate(Message(Texts(Strip(stdout)), StreamLen(Strip(stdout))))
    ELSE ExitCodeMessage(returncode)

\* downloader.py line 114
CompletedMessage == Message(<<"Download completed">>, 18)

\* downloader.py line 141: f"Download timed out (track_count={track_count})"
TimeoutMessage(count) == Message(<<"Download timed out (track_count=", count, ")">>, 34)

\* downloader.py line 151: f"Download error: {e}"
ErrorMessage == Message(<<"Download error: ", "e">>, 17)

Max(a, b) == IF a > b THEN a ELSE b

Timeout_NoMinimum(count) ==
    IF count > 0 THEN count * seconds_per_track ELSE default_timeout

\* downloader.py lines 97-100
Timeout(count) ==
    IF count > 0 THEN Max(min_timeout, count * seconds_per_track) ELSE default_timeout

\* downloader.py lines 136, 146, 156: the tuple that is returned.
ResultTuple(success, message) ==
    [uuid |-> "uuid-1", name |-> "Mix", success |-> success, message |-> message]

OnStart(cb) == IF cb THEN <<[ev |-> "on_start"]>> ELSE <<>>

OnComplete_Twice(cb, success) ==
    IF cb THEN <<[ev |-> "on_complete", success |-> success],
                 [ev |-> "on_complete", success |-> success]>> ELSE <<>>

\* downloader.py lines 133-134, 144-145, 154-155
OnComplete(cb, success) ==
    IF cb THEN <<[ev |-> "on_complete", success |-> success]>> ELSE <<>>

IdleDl ==
    /\ d_pc = "idle"
    /\ track_count = 0
    /\ callbacks = FALSE
    /\ timeout_seconds = 0
    /\ events = <<>>
    /\ proc = <<>>
    /\ d_returned = <<>>
    /\ n_completed = 0
    /\ n_failed = 0
    /\ failed_playlists = <<>>

InitDl ==
    /\ d_pc = "call"
    /\ track_count \in TrackCounts
    /\ callbacks \in BOOLEAN
    /\ timeout_seconds = 0
    /\ events = <<>>
    /\ proc = <<>>
    /\ d_returned = <<>>
    /\ n_completed = 0
    /\ n_failed = 0
    /\ failed_playlists = <<>>

\* downloader.py lines 81-106: on_start is called, the command and the
\* timeout are made, and the subprocess is launched.
DL_Launch ==
    /\ d_pc = "call"
    /\ timeout_seconds' = Timeout(track_count)
    /\ events' = OnStart(callbacks)
                    \o <<[ev |-> "launch", timeout |-> Timeout(track_count)]>>
    /\ d_pc' = "running"
    /\ UNCHANGED <<track_count, callbacks, proc, d_returned, n_completed, n_failed,
                   failed_playlists>>

\* The end of _download_playlist: the counters, on_complete and the return.
Return(success, message) ==
    /\ events' = events \o <<[ev |-> "end"]>> \o OnComplete(callbacks, success)
    /\ d_returned' = ResultTuple(success, message)
    /\ n_completed' = IF success THEN n_completed + 1 ELSE n_completed
    /\ n_failed' = IF success THEN n_failed ELSE n_failed + 1
    /\ failed_playlists' = IF success THEN failed_playlists
                           ELSE Append(failed_playlists, message)
    /\ d_pc' = "returned"
    /\ UNCHANGED <<track_count, callbacks, timeout_seconds>>

\* downloader.py lines 102-136: the subprocess exits within the timeout.
DL_Exit ==
    /\ d_pc = "running"
    /\ \E duration \in Durations, returncode \in ReturnCodes, o \in Outputs :
          /\ duration <= timeout_seconds
          /\ proc' = [outcome |-> "exit", duration |-> duration,
                      returncode |-> returncode, stdout |-> o[1], stderr |-> o[2]]
          /\ IF returncode = 0
             THEN Return(TRUE, CompletedMessage)
             ELSE Return(FALSE, FailureMessage(returncode, o[1], o[2]))

\* downloader.py lines 102-106 and 138-146: the subprocess is still running
\* when the timeout has passed; subprocess.run kills it and raises
\* TimeoutExpired.
DL_Timeout ==
    /\ d_pc = "running"
    /\ \E duration \in Durations :
          /\ duration > timeout_seconds
          /\ proc' = [outcome |-> "timeout", duration |-> timeout_seconds]
    /\ Return(FALSE, TimeoutMessage(track_count))

\* downloader.py lines 102-106 and 148-156: subprocess.run raises another
\* exception, for example because the program cannot be started.
DL_Error ==
    /\ d_pc = "running"
    /\ proc' = [outcome |-> "error"]
    /\ Return(FALSE, ErrorMessage)

(***************************************************************************)
(* command.py spotify_to_tidal from its entry to its exit, one step of a   *)
(* playlist after the other: the authentication checks, the selection, the *)
(* numbering of the playlists under the counter lock, migrate_playlist,    *)
(* the removal of duplicates, the hand-over to the downloader, the         *)
(* downloads of both modes and the writing of the reports.  A playlist's   *)
(* history lists the steps it went through, in the order of the code; the  *)
(* mutations are the requests that change the target catalog.  The exit    *)
(* code is -1 as long as the process runs.                                 *)
(***************************************************************************)
MaxFlowPlaylists == 2

WorkerCounts == {1, 2}

\* command.py lines 329 and 339: raise typer.Exit() carries no code, and the
\* process ends with status 0.
typer_Exit == 0

\* command.py lines 224-225: an exception that leaves the command ends the
\* process with status 1.
uncaught_exit == 1

\* command.py line 562: ui = MigrationUI(console=console) if FANCY_UI and not DRY_RUN else None
Ui(opts) == opts.fancy_ui /\ ~opts.dry_run

NextNumber_Stuck(counter) == IF counter = 0 THEN 1 ELSE counter

\* command.py lines 123-125: _playlist_counter[0] += 1 under _counter_lock
NextNumber(counter) == counter + 1

\* What migrate_playlist meets: the source cannot be fetched, the target
\* cannot be found or created, an exception leaves the track loop, nothing is
\* added to an empty target, or the playlist is migrated and the update of
\* its description succeeds or fails.
Fates == {"fetch_fails", "find_fails", "raises", "empty", "ok", "description_fails"}

Outcome(steps, result, raised, ops) ==
    [steps |-> steps, result |-> result, raised |-> raised, ops |-> ops]

migrate_playlist_NoDryRun(is_dry_run, fate) ==
    CASE fate = "fetch_fails" -> Outcome(<<"fetch_failed">>, FALSE, FALSE, {})
      [] fate = "find_fails" -> Outcome(<<"fetch", "find_failed">>, FALSE, FALSE, {})
      [] fate = "raises" ->
            Outcome(<<"fetch", "find", "raise">>, FALSE, TRUE, {"create"})
      [] fate = "empty" -> Outcome(<<"fetch", "find", "tracks">>, FALSE, FALSE, {"create"})
      [] fate = "ok" ->
            Outcome(<<"fetch", "find", "tracks", "description">>, TRUE, FALSE,
                    {"create", "add", "update"})
      [] fate = "description_fails" ->
            Outcome(<<"fetch", "find", "tracks", "description_failed">>, TRUE, FALSE,
                    {"create", "add"})

migrate_playlist_EmptyReturns(is_dry_run, fate) ==
    CASE fate = "fetch_fails" -> Outcome(<<"fetch_failed">>, FALSE, FALSE, {})
      [] fate # "fetch_fails" /\ is_dry_run -> Outcome(<<"fetch", "dry_run">>, FALSE, FALSE, {})
      [] ~is_dry_run /\ fate = "find_fails" ->
            Outcome(<<"fetch", "find_failed">>, FALSE, FALSE, {})
      [] ~is_dry_run /\ fate = "raises" ->
            Outcome(<<"fetch", "find", "raise">>, FALSE, TRUE, {"create"})
      [] ~is_dry_run /\ fate = "empty" ->
            Outcome(<<"fetch", "find", "tracks">>, TRUE, FALSE, {"create"})
      [] ~is_dry_run /\ fate = "ok" ->
            Outcome(<<"fetch", "find", "tracks", "description">>, TRUE, FALSE,
                    {"create", "add", "update"})
      [] ~is_dry_run /\ fate = "description_fails" ->
            Outcome(<<"fetch", "find", "tracks", "description_failed">>, TRUE, FALSE,
                    {"create", "add"})

migrate_playlist_StrictDescription(is_dry_run, fate) ==
    CASE fate = "fetch_fails" -> Outcome(<<"fetch_failed">>, FALSE, FALSE, {})
      [] fate # "fetch_fails" /\ is_dry_run -> Outcome(<<"fetch", "dry_run">>, FALSE, FALSE, {})
      [] ~is_dry_run /\ fate = "find_fails" ->
            Outcome(<<"fetch", "find_failed">>, FALSE, FALSE, {})
      [] ~is_dry_run /\ fate = "raises" ->
            Outcome(<<"fetch", "find", "raise">>, FALSE, TRUE, {"create"})
      [] ~is_dry_run /\ fate = "empty" ->
            Outcome(<<"fetch", "find", "tracks">>, FALSE, FALSE, {"create"})
      [] ~is_dry_run /\ fate = "ok" ->
            Outcome(<<"fetch", "find", "tracks", "description">>, TRUE, FALSE,
                    {"create", "add", "update"})
      [] ~is_dry_run /\ fate = "description_fails" ->
            Outcome(<<"fetch", "find", "tracks", "description_failed">>, FALSE, FALSE,
                    {"create", "add"})

\* command.py lines 703-1061, migrate_playlist: the steps in the order of the
\* code, whether the playlist's id is returned, whether an exception leaves
\* the function, and the requests that change the target catalog.  The fetch
\* of the source comes first (lines 747-759), the dry run returns next (lines
\* 764-769), then find-or-create (lines 775-793), the track loop (lines
\* 839-984), the return for an empty target (lines 1030-1035) and the update of
\* the description, whose failure is only logged (lines 1045-1055).
migrate_playlist(is_dry_run, fate) ==
    CASE fate = "fetch_fails" -> Outcome(<<"fetch_failed">>, FALSE, FALSE, {})
      [] fate # "fetch_fails" /\ is_dry_run -> Outcome(<<"fetch", "dry_run">>, FALSE, FALSE, {})
      [] ~is_dry_run /\ fate = "find_fails" ->
            Outcome(<<"fetch", "find_failed">>, FALSE, FALSE, {})
      [] ~is_dry_run /\ fate = "raises" ->
            Outcome(<<"fetch", "find", "raise">>, FALSE, TRUE, {"create"})
      [] ~is_dry_run /\ fate = "empty" ->
            Outcome(<<"fetch", "find", "tracks">>, FALSE, FALSE, {"create"})
      [] ~is_dry_run /\ fate = "ok" ->
            Outcome(<<"fetch", "find", "tracks", "description">>, TRUE, FALSE,
                    {"create", "add", "update"})
      [] ~is_dry_run /\ fate = "description_fails" ->
            Outcome(<<"fetch", "find", "tracks", "description_failed">>, TRUE, FALSE,
                    {"create", "add"})

\* The rows migrate_playlist records for a migrated playlist.
FlowOutcomes == <<"added">>

FlowRunning == {i \in Tasks : par_pc[i] \in {"taken", "start", "migrated", "cleaned"}}

NextQueued_Last(queue, state) ==
    LET waiting == {k \in DOMAIN queue : state[queue[k]] = "queued"}
    IN  queue[CHOOSE k \in waiting : \A l \in waiting : l <= k]

\* downloader.py line 167: for ... in self._queued_playlists, the next
\* playlist of the queue that has not been downloaded.
NextQueued(queue, state) ==
    LET waiting == {k \in DOMAIN queue : state[queue[k]] = "queued"}
    IN  queue[CHOOSE k \in waiting : \A l \in waiting : k <= l]

IdleFlow ==
    /\ auth = "none"
    /\ playlist_counter = 0
    /\ current_num = <<>>
    /\ start_events = <<>>
    /\ task_steps = <<>>
    /\ mutations = {}
    /\ handed = <<>>
    /\ dl_order = <<>>
    /\ drain = "not_called"
    /\ exit_code = -1

\* The command is entered: the options are those of the command line, the
\* credentials are there or not, no playlist is selected yet.
InitFlow ==
    /\ auth \in {"no_credentials", "not_authenticated", "ok"}
    /\ options \in [download : BOOLEAN, parallel_download : BOOLEAN, fancy_ui : BOOLEAN,
                    dry_run : BOOLEAN, cleanup : BOOLEAN]
    /\ migration_workers \in WorkerCounts
    /\ selected_playlists = <<>>
    /\ par_pc = <<>>
    /\ par_idx = <<>>
    /\ c_playlists = <<>>
    /\ csv_files = <<>>
    /\ main_pc = "entry"
    /\ text_logs = <<>>
    /\ futures = <<>>
    /\ queued_playlists = <<>>
    /\ dl_state = <<>>
    /\ wfc = NoWait
    /\ wait_log = <<>>
    /\ dl_results = <<>>
    /\ applied = <<>>
    /\ playlist_counter = 0
    /\ current_num = <<>>
    /\ start_events = <<>>
    /\ task_steps = <<>>
    /\ mutations = {}
    /\ handed = <<>>
    /\ dl_order = <<>>
    /\ drain = "not_called"
    /\ exit_code = -1

\* The variables of the run that the steps of the flow never touch.
flowRest == <<par_idx, text_logs, wfc, wait_log, dl_results, applied, auth,
              migration_workers, options>>

\* command.py lines 324-339: without credentials, or without a login, the
\* command raises typer.Exit().
F_Entry ==
    /\ main_pc = "entry"
    /\ IF auth = "ok"
       THEN main_pc' = "select" /\ UNCHANGED exit_code
       ELSE main_pc' = "exit" /\ exit_code' = typer_Exit
    /\ UNCHANGED <<flowRest, selected_playlists, par_pc, c_playlists, csv_files, futures,
                   queued_playlists, dl_state, playlist_counter, current_num, start_events,
                   task_steps, mutations, handed, dl_order, drain>>

\* command.py lines 341-535: the playlists of the source are listed and some
\* of them selected.
F_Select ==
    /\ main_pc = "select"
    /\ \E n \in 1..MaxFlowPlaylists :
          /\ selected_playlists' = [i \in 1..n |-> [name |-> RunNames[i], total |-> 1]]
          /\ par_pc' = [i \in 1..n |-> "queued"]
          /\ current_num' = [i \in 1..n |-> 0]
          /\ task_steps' = [i \in 1..n |-> <<>>]
          /\ dl_state' = [i \in 1..n |-> "none"]
    /\ main_pc' = "loop"
    /\ UNCHANGED <<flowRest, c_playlists, csv_files, futures, queued_playlists,
                   playlist_counter, start_events, mutations, handed, dl_order, drain,
                   exit_code>>

\* command.py lines 205-225 and 117-122: a free worker of the pool, or the loop
\* of the sequential mode, takes the next playlist.
F_Begin(i) ==
    /\ main_pc = "loop"
    /\ par_pc[i] = "queued"
    /\ \A j \in Tasks : j < i => par_pc[j] # "queued"
    /\ Cardinality(FlowRunning) < migration_workers
    /\ par_pc' = [par_pc EXCEPT ![i] = "taken"]
    /\ UNCHANGED <<flowRest, selected_playlists, c_playlists, csv_files, main_pc, futures,
                   queued_playlists, dl_state, playlist_counter, current_num, start_events,
                   task_steps, mutations, handed, dl_order, drain, exit_code>>

\* command.py lines 123-131: the playlist is numbered under the lock and the
\* UI, when there is one, is told that the playlist starts.
F_Number(i) ==
    /\ par_pc[i] = "taken"
    /\ playlist_counter' = NextNumber(playlist_counter)
    /\ current_num' = [current_num EXCEPT ![i] = playlist_counter']
    /\ start_events' = IF Ui(options)
                       THEN Append(start_events, [num |-> playlist_counter', task |-> i])
                       ELSE start_events
    /\ par_pc' = [par_pc EXCEPT ![i] = "start"]
    /\ UNCHANGED <<flowRest, selected_playlists, c_playlists, csv_files, main_pc, futures,
                   queued_playlists, dl_state, task_steps, mutations, handed, dl_order,
                   drain, exit_code>>

\* command.py lines 133-146 with migrate_playlist (lines 703-1061)
F_Migrate(i) ==
    /\ main_pc = "loop"
    /\ par_pc[i] = "start"
    /\ \E fate \in Fates :
          LET out == migrate_playlist(options.dry_run, fate)
          IN  /\ task_steps' = [task_steps EXCEPT ![i] = @ \o out.steps]
              /\ mutations' = mutations \cup {[task |-> i, op |-> op] : op \in out.ops}
              /\ par_pc' = [par_pc EXCEPT ![i] =
                               IF out.raised THEN "raised"
                               ELSE IF out.result THEN "migrated" ELSE "done"]
              /\ main_pc' = IF out.raised THEN AfterRaise(migration_workers) ELSE main_pc
              /\ c_playlists' =
                    IF "tracks" \in Range(out.steps)
                    THEN RecordTracks(start_playlist(c_playlists, RunNames[i]),
                                      i, FlowOutcomes, 1)
                    ELSE c_playlists
    /\ UNCHANGED <<flowRest, selected_playlists, csv_files, futures, queued_playlists,
                   dl_state, playlist_counter, current_num, start_events, handed, dl_order,
                   drain, exit_code>>

\* command.py lines 148-164: the duplicates of the migrated playlist are
\* removed when cleanup is on; a failure is only a warning.
F_Cleanup(i) ==
    /\ par_pc[i] = "migrated"
    /\ IF options.cleanup /\ ~options.dry_run
       THEN \E ok \in BOOLEAN :
               /\ task_steps' = [task_steps EXCEPT ![i] =
                                    Append(@, IF ok THEN "cleanup" ELSE "cleanup_failed")]
               /\ mutations' = IF ok THEN mutations \cup {[task |-> i, op |-> "delete"]}
                               ELSE mutations
       ELSE UNCHANGED <<task_steps, mutations>>
    /\ par_pc' = [par_pc EXCEPT ![i] = "cleaned"]
    /\ UNCHANGED <<flowRest, selected_playlists, c_playlists, csv_files, main_pc, futures,
                   queued_playlists, dl_state, playlist_counter, current_num, start_events,
                   handed, dl_order, drain, exit_code>>

\* command.py lines 166-192: the playlist's id joins migrated_playlist_ids and
\* the playlist is given to the downloader (downloader.py lines 63-77).
F_AddPlaylist(i) ==
    /\ par_pc[i] = "cleaned"
    /\ handed' = Append(handed, i)
    /\ task_steps' = [task_steps EXCEPT ![i] = Append(@, "add_playlist")]
    /\ R_AddPlaylist(i)
    /\ par_pc' = [par_pc EXCEPT ![i] = "done"]
    /\ UNCHANGED <<flowRest, selected_playlists, c_playlists, csv_files, main_pc,
                   playlist_counter, current_num, start_events, mutations, dl_order, drain,
                   exit_code>>

\* downloader.py line 61 and lines 73, 79: a worker of the download pool takes
\* a submitted playlist.
F_PoolStart(i) ==
    /\ dl_state[i] = "submitted"
    /\ Cardinality({j \in Tasks : dl_state[j] = "running"}) < max_workers
    /\ dl_state' = [dl_state EXCEPT ![i] = "running"]
    /\ dl_order' = Append(dl_order, i)
    /\ UNCHANGED <<flowRest, selected_playlists, par_pc, c_playlists, csv_files, main_pc,
                   futures, queued_playlists, playlist_counter, current_num, start_events,
                   task_steps, mutations, handed, drain, exit_code>>

\* downloader.py lines 79-156: the download of the playlist ends, well or not.
F_Downloaded(i) ==
    /\ dl_state[i] = "running"
    /\ \E success \in BOOLEAN :
          dl_state' = [dl_state EXCEPT ![i] = IF success THEN "ok" ELSE "failed"]
    /\ UNCHANGED <<flowRest, selected_playlists, par_pc, c_playlists, csv_files, main_pc,
                   futures, queued_playlists, playlist_counter, current_num, start_events,
                   task_steps, mutations, handed, dl_order, drain, exit_code>>

\* command.py lines 204-233: the pool is drained; under the live UI with
\* parallel downloads the loop waits for the downloads before it returns.
F_LoopEnd ==
    /\ main_pc = "loop"
    /\ \A i \in Tasks : par_pc[i] \in {"done", "raised"}
    /\ main_pc' = IF Ui(options) /\ options.download /\ options.parallel_download
                  THEN "ui_wait" ELSE "handle"
    /\ UNCHANGED <<flowRest, selected_playlists, par_pc, c_playlists, csv_files, futures,
                   queued_playlists, dl_state, playlist_counter, current_num, start_events,
                   task_steps, mutations, handed, dl_order, drain, exit_code>>

\* downloader.py lines 173-220, wait_for_completion as a whole: it returns
\* when every future is finished and clears the list of futures.
F_Wait ==
    /\ main_pc \in {"ui_wait", "wait"}
    /\ \A i \in Range(futures) : Finished(i)
    /\ futures' = <<>>
    /\ main_pc' = IF main_pc = "ui_wait" THEN "handle" ELSE "finalize"
    /\ UNCHANGED <<flowRest, selected_playlists, par_pc, c_playlists, csv_files,
                   queued_playlists, dl_state, playlist_counter, current_num, start_events,
                   task_steps, mutations, handed, dl_order, drain, exit_code>>

\* command.py lines 630-675: with downloads and a migrated playlist the
\* downloads are waited for (parallel) or download_queued is called
\* (sequential).
F_HandleDownloads ==
    /\ main_pc = "handle"
    /\ IF options.download /\ handed # <<>>
       THEN IF options.parallel_download
            THEN main_pc' = "wait" /\ UNCHANGED drain
            ELSE main_pc' = "drain" /\ drain' = "running"
       ELSE main_pc' = "finalize" /\ UNCHANGED drain
    /\ UNCHANGED <<flowRest, selected_playlists, par_pc, c_playlists, csv_files, futures,
                   queued_playlists, dl_state, playlist_counter, current_num, start_events,
                   task_steps, mutations, handed, dl_order, exit_code>>

\* downloader.py lines 167-168: download_queued calls _download_playlist for
\* the next playlist of the queue.
Q_Start ==
    /\ main_pc = "drain"
    /\ \A j \in Tasks : dl_state[j] # "running"
    /\ \E k \in DOMAIN queued_playlists : dl_state[queued_playlists[k]] = "queued"
    /\ LET i == NextQueued(queued_playlists, dl_state)
       IN  /\ dl_state' = [dl_state EXCEPT ![i] = "running"]
           /\ dl_order' = Append(dl_order, i)
    /\ UNCHANGED <<flowRest, selected_playlists, par_pc, c_playlists, csv_files, main_pc,
                   futures, queued_playlists, playlist_counter, current_num, start_events,
                   task_steps, mutations, handed, drain, exit_code>>

\* downloader.py lines 170-171: the loop is over, the queue is cleared and
\* download_queued returns.
Q_Done ==
    /\ main_pc = "drain"
    /\ \A k \in DOMAIN queued_playlists : Finished(queued_playlists[k])
    /\ queued_playlists' = <<>>
    /\ drain' = "returned"
    /\ main_pc' = "finalize"
    /\ UNCHANGED <<flowRest, selected_playlists, par_pc, c_playlists, csv_files, futures,
                   dl_state, playlist_counter, current_num, start_events, task_steps,
                   mutations, handed, dl_order, exit_code>>

\* command.py lines 698-700: the CSV reports are written unless the run is a
\* dry run, and the command returns.
F_Finalize ==
    /\ main_pc = "finalize"
    /\ csv_files' = IF ~options.dry_run THEN write_reports(c_playlists) ELSE csv_files
    /\ exit_code' = 0
    /\ main_pc' = "end"
    /\ UNCHANGED <<flowRest, selected_playlists, par_pc, c_playlists, futures,
                   queued_playlists, dl_state, playlist_counter, current_num, start_events,
                   task_steps, mutations, handed, dl_order, drain>>

\* command.py lines 224-225: the exception that left the sequential loop
\* leaves the command.
F_Abort ==
    /\ main_pc = "crashed"
    /\ exit_code' = uncaught_exit
    /\ main_pc' = "exit"
    /\ UNCHANGED <<flowRest, selected_playlists, par_pc, c_playlists, csv_files, futures,
                   queued_playlists, dl_state, playlist_counter, current_num, start_events,
                   task_steps, mutations, handed, dl_order, drain>>

(***************************************************************************)
(* api.py TidalAPI._request: one request to the target catalog.  The       *)
(* server's answers to the first and to the second attempt are fixed for   *)
(* the behaviour; the client's on_token_expiry is absent, or fails to give *)
(* a token, or gives a new one.                                            *)
(***************************************************************************)
unauthorized == 401

Statuses == {200, 201, unauthorized, 500}

ShouldRefresh_Any(status, handler) == status \notin {200, 201} /\ handler # "none"

\* api.py line 268: response.status_code == 401 and self.client.on_token_expiry
ShouldRefresh(status, handler) == status = unauthorized /\ handler # "none"

IdleReq ==
    /\ rq_pc = "idle"
    /\ token = ""
    /\ on_token_expiry = "none"
    /\ server_status = <<>>
    /\ attempts = <<>>
    /\ refreshes = 0
    /\ response = None

InitReq ==
    /\ rq_pc = "send"
    /\ token = "old"
    /\ on_token_expiry \in {"none", "fails", "refreshes"}
    /\ server_status \in [1..2 -> Statuses]
    /\ attempts = <<>>
    /\ refreshes = 0
    /\ response = None

\* api.py lines 261-265: the request goes out with the current token.
RQ_Send ==
    /\ rq_pc = "send"
    /\ attempts' = <<[token |-> token, status |-> server_status[1]]>>
    /\ response' = server_status[1]
    /\ rq_pc' = "sent"
    /\ UNCHANGED <<token, on_token_expiry, server_status, refreshes>>

\* api.py lines 268-271: on a 401 the handler is asked for a new token.
RQ_Expiry ==
    /\ rq_pc = "sent"
    /\ ShouldRefresh(response, on_token_expiry)
    /\ refreshes' = refreshes + 1
    /\ IF on_token_expiry = "refreshes"
       THEN token' = "new" /\ rq_pc' = "retry"
       ELSE UNCHANGED token /\ rq_pc' = "return"
    /\ UNCHANGED <<on_token_expiry, server_status, attempts, response>>

\* api.py lines 272-273: the request is sent again with the new token.
RQ_Retry ==
    /\ rq_pc = "retry"
    /\ attempts' = Append(attempts, [token |-> token, status |-> server_status[2]])
    /\ response' = server_status[2]
    /\ rq_pc' = "return"
    /\ UNCHANGED <<token, on_token_expiry, server_status, refreshes>>

\* api.py line 275: return response
RQ_Return ==
    /\ \/ rq_pc = "return"
       \/ rq_pc = "sent" /\ ~ShouldRefresh(response, on_token_expiry)
    /\ rq_pc' = "returned"
    /\ UNCHANGED <<token, on_token_expiry, server_status, attempts, refreshes, response>>

(***************************************************************************)
(* api.py TidalAPI.add_tracks_to_playlist: one batch of ids.  The server   *)
(* accepts the batch request or not, and rejects the single add of the     *)
(* ids of a fixed set; every request gets a response.                      *)
(***************************************************************************)
MaxBatch == 2

AddIds == {11, 22, 33}

\* api.py lines 338-345, get_playlist_etag
EtagRequest == [kind |-> "etag", ids |-> <<>>]

\* api.py lines 347-365, add_tracks_request
AddRequest(ids) == [kind |-> "add", ids |-> ids]

\* api.py lines 354-362: the request carries onDuplicates, which the callers
\* set to SKIP: the server leaves out an id the playlist already holds.
AddSkipping(held, id) ==
    IF \E k \in DOMAIN held : held[k] = id THEN held ELSE Append(held, id)

RECURSIVE AddAllSkipping(_, _)
AddAllSkipping(held, ids) ==
    IF ids = <<>> THEN held ELSE AddAllSkipping(AddSkipping(held, Head(ids)), Tail(ids))

SingleAdd_StaleTag(id) == <<AddRequest(<<id>>)>>

\* api.py lines 384-385: etag = get_playlist_etag(); response = add_tracks_request([track_id], etag)
SingleAdd(id) == <<EtagRequest, AddRequest(<<id>>)>>

IdleAdd ==
    /\ at_pc = "idle"
    /\ add_ids = <<>>
    /\ batch_accepted = FALSE
    /\ rejected = {}
    /\ at_idx = 0
    /\ requests = <<>>
    /\ failed_tracks = <<>>
    /\ success_count = 0
    /\ error_ids = <<>>
    /\ playlist_items = <<>>

InitAdd ==
    /\ at_pc = "batch"
    /\ add_ids \in {s \in SeqsUpTo(AddIds, MaxBatch) : s # <<>>}
    /\ batch_accepted \in BOOLEAN
    /\ rejected \in SUBSET AddIds
    /\ at_idx = 0
    /\ requests = <<>>
    /\ failed_tracks = <<>>
    /\ success_count = 0
    /\ error_ids = <<>>
    /\ playlist_items = <<>>

\* api.py lines 367-380: the tag is read and the whole batch is sent.
AT_Batch ==
    /\ at_pc = "batch"
    /\ requests' = <<EtagRequest, AddRequest(add_ids)>>
    /\ IF batch_accepted
       THEN /\ playlist_items' = AddAllSkipping(playlist_items, add_ids)
            /\ at_pc' = "returned"
            /\ UNCHANGED at_idx
       ELSE /\ at_pc' = "single"
            /\ at_idx' = 1
            /\ UNCHANGED playlist_items
    /\ UNCHANGED <<add_ids, batch_accepted, rejected, failed_tracks, success_count, error_ids>>

\* api.py lines 382-395: one id of the batch is added on its own.
AT_Single ==
    /\ at_pc = "single"
    /\ at_idx <= Len(add_ids)
    /\ LET track_id == add_ids[at_idx]
       IN  /\ requests' = requests \o SingleAdd(track_id)
           /\ IF track_id \notin rejected
              THEN /\ success_count' = success_count + 1
                   /\ playlist_items' = AddSkipping(playlist_items, track_id)
                   /\ UNCHANGED failed_tracks
              ELSE /\ failed_tracks' = Append(failed_tracks, track_id)
                   /\ UNCHANGED <<success_count, playlist_items>>
    /\ at_idx' = at_idx + 1
    /\ UNCHANGED <<at_pc, add_ids, batch_accepted, rejected, error_ids>>

\* api.py lines 397-406: with a failed id ApiError is raised, its message
\* listing failed_tracks; otherwise {} is returned.
AT_Finish ==
    /\ at_pc = "single"
    /\ at_idx > Len(add_ids)
    /\ IF failed_tracks # <<>>
       THEN at_pc' = "raised" /\ error_ids' = failed_tracks
       ELSE at_pc' = "returned" /\ UNCHANGED error_ids
    /\ UNCHANGED <<add_ids, batch_accepted, rejected, at_idx, requests, failed_tracks,
                   success_count, playlist_items>>

(***************************************************************************)
(* playlist.py find_or_reuse_tidal_playlist for the requested name         *)
(* PlaylistName.  The user's playlists are listed in a fixed order; a      *)
(* playlist is its uuid and its title.  The k-th listing request may fail, *)
(* and the create request fails or answers in one of the three shapes.     *)
(***************************************************************************)
\* playlist.py line 32: limit = 50
playlists_limit == 50

new_uuid == 99

ListingLengths == {0, 1, 2, 50, 51, 52}

MarkedPositions == {1, 2, 50, 51, 52}

ListedTitles == {PlaylistName, "mix", "Jazz"}

Listings ==
    UNION {{[i \in 1..n |-> [uuid |-> i,
                             title |-> IF i \in MarkedPositions THEN t[i] ELSE "Jazz"]] :
               t \in [MarkedPositions -> ListedTitles]} : n \in ListingLengths}

\* api.get_user_playlists(limit, offset): the items of one page.
ListingPage(listing, offset) ==
    SubSeq(listing, offset + 1, Min(Len(listing), offset + playlists_limit))

\* playlist.py lines 40-43 and 96-98: the first playlist of the page whose
\* title is the requested name, 0 when there is none.
FirstMatch(page_items, name) ==
    LET hits == {k \in DOMAIN page_items : page_items[k].title = name}
    IN  IF hits = {} THEN 0 ELSE CHOOSE k \in hits : \A l \in hits : k <= l

IdleFind ==
    /\ fr_pc = "idle"
    /\ user_playlists = <<>>
    /\ listing_fails_at = 0
    /\ create_response = "none"
    /\ fr_offset = 0
    /\ fr_calls = <<>>
    /\ existing_playlist_uuid = None
    /\ playlist_uuid = None

InitFind ==
    /\ fr_pc = "list"
    /\ user_playlists \in Listings
    /\ listing_fails_at \in 0..2
    /\ create_response \in {"uuid", "data_uuid", "None", "fails"}
    /\ fr_offset = 0
    /\ fr_calls = <<>>
    /\ existing_playlist_uuid = None
    /\ playlist_uuid = None

ListCalls == Cardinality({k \in DOMAIN fr_calls : fr_calls[k].op = "list"})

\* playlist.py lines 33-71: one iteration of the listing loop.  A request that
\* raises ends the loop without a playlist (lines 69-71).
FR_Page ==
    /\ fr_pc = "list"
    /\ fr_calls' = Append(fr_calls, [op |-> "list", offset |-> fr_offset])
    /\ IF listing_fails_at = ListCalls + 1
       THEN /\ fr_pc' = "create"
            /\ UNCHANGED <<fr_offset, existing_playlist_uuid>>
       ELSE LET page_items == ListingPage(user_playlists, fr_offset)
                hit == FirstMatch(page_items, PlaylistName)
            IN  IF page_items = <<>>
                THEN /\ fr_pc' = "create"
                     /\ UNCHANGED <<fr_offset, existing_playlist_uuid>>
                ELSE IF hit # 0
                THEN /\ existing_playlist_uuid' = page_items[hit].uuid
                     /\ fr_pc' = "reused"
                     /\ UNCHANGED fr_offset
                ELSE /\ fr_offset' = fr_offset + playlists_limit
                     /\ fr_pc' = IF fr_offset' >= Len(user_playlists) THEN "create" ELSE "list"
                     /\ UNCHANGED existing_playlist_uuid
    /\ UNCHANGED <<user_playlists, listing_fails_at, create_response, playlist_uuid>>

\* playlist.py lines 77-108: the playlist is created; when the response does
\* not carry the uuid the first page is listed again and the first playlist
\* with the requested title is taken.  The server lists the new playlist
\* first or last.
FR_Create ==
    /\ fr_pc = "create"
    /\ IF create_response = "fails"
       THEN /\ fr_calls' = Append(fr_calls, [op |-> "create", offset |-> 0])
            /\ fr_pc' = "raised"
            /\ UNCHANGED <<user_playlists, playlist_uuid>>
       ELSE \E first \in BOOLEAN :
               LET created == [uuid |-> new_uuid, title |-> PlaylistName]
                   now == IF first THEN <<created>> \o user_playlists
                          ELSE Append(user_playlists, created)
                   again == ListingPage(now, 0)
                   hit == FirstMatch(again, PlaylistName)
               IN  /\ user_playlists' = now
                   /\ IF create_response = "None"
                      THEN /\ fr_calls' = fr_calls \o <<[op |-> "create", offset |-> 0],
                                                        [op |-> "list", offset |-> 0]>>
                           /\ IF hit # 0
                              THEN playlist_uuid' = again[hit].uuid /\ fr_pc' = "created"
                              ELSE UNCHANGED playlist_uuid /\ fr_pc' = "raised"
                      ELSE /\ fr_calls' = Append(fr_calls, [op |-> "create", offset |-> 0])
                           /\ playlist_uuid' = new_uuid
                           /\ fr_pc' = "created"
    /\ UNCHANGED <<listing_fails_at, create_response, fr_offset, existing_playlist_uuid>>

(***************************************************************************)
(* playlist.py _fetch_all_playlist_tracks: the snapshot of a reused        *)
(* playlist.  An item is the id of its track, or None when it has no    *)
(* usable track; expected_count is the playlist's number of items.  The    *)
(* k-th page request may raise.                                            *)
(***************************************************************************)
\* playlist.py line 124: track_limit = 100
track_limit == 100

SnapLengths == {1, 2, 100, 101, 201}

SnapPlaylists ==
    UNION {{[i \in 1..n |-> IF i \in U THEN None ELSE i] :
               U \in {{}, {1}, 1..Min(n, track_limit), {n}}} : n \in SnapLengths}

\* playlist.py lines 153-160: the ids of the usable tracks of a page.
UsableIds(page_items) == {page_items[k] : k \in DOMAIN page_items} \ {None}

\* playlist.py lines 150-160: page_count, the number of usable tracks.
PageCount(page_items) == Cardinality({k \in DOMAIN page_items : page_items[k] # None})

IdleSnap ==
    /\ sn_pc = "idle"
    /\ sn_items = <<>>
    /\ expected_count = 0
    /\ page_fails_at = 0
    /\ track_offset = 0
    /\ sn_offsets = <<>>
    /\ track_ids = {}
    /\ sn_log = <<>>

InitSnap ==
    /\ sn_pc = "loop"
    /\ sn_items \in SnapPlaylists
    /\ expected_count = Len(sn_items)
    /\ page_fails_at \in 0..3
    /\ track_offset = 0
    /\ sn_offsets = <<>>
    /\ track_ids = {}
    /\ sn_log = <<>>

\* playlist.py lines 128-186: one iteration of the page loop.
SN_Page ==
    /\ sn_pc = "loop"
    /\ track_offset < expected_count
    /\ sn_offsets' = Append(sn_offsets, track_offset)
    /\ IF page_fails_at = Len(sn_offsets) + 1
       THEN /\ sn_log' = Append(sn_log, "error")
            /\ sn_pc' = "after"
            /\ UNCHANGED <<track_offset, track_ids>>
       ELSE LET page_items == SubSeq(sn_items, track_offset + 1,
                                     Min(Len(sn_items), track_offset + track_limit))
            IN  /\ track_ids' = track_ids \cup UsableIds(page_items)
                /\ track_offset' = track_offset + track_limit
                /\ sn_pc' = IF PageCount(page_items) = 0 THEN "after" ELSE "loop"
                /\ UNCHANGED sn_log
    /\ UNCHANGED <<sn_items, expected_count, page_fails_at>>

\* playlist.py lines 188-196: a mismatch of the sizes is a warning; the ids
\* are returned.
SN_Return ==
    /\ \/ sn_pc = "after"
       \/ sn_pc = "loop" /\ track_offset >= expected_count
    /\ sn_log' = IF Cardinality(track_ids) # expected_count
                 THEN Append(sn_log, "warning") ELSE sn_log
    /\ sn_pc' = "returned"
    /\ UNCHANGED <<sn_items, expected_count, page_fails_at, track_offset, sn_offsets,
                   track_ids>>
IdleMut == IdleReq /\ IdleAdd /\ IdleFind /\ IdleSnap

(***************************************************************************)
(* tracks.py search_tidal_track, query by query.  Every query has its own  *)
(* result list; get_search raises for the queries of sr_failing.           *)
(***************************************************************************)
\* tracks.py line 352: search_result.tracks.items[:10]
search_top == 10

\* Results that match no source track, to fill the ranks before a match.
FillerTrack == [title |-> <<"live">>, artists |-> << <<"yoru">> >>,
                duration |-> 500, isrc |-> "ISRC-X"]

SearchTrack(id) == IF id \in TidalIds THEN TidalCatalog[id] ELSE FillerTrack

Fillers(n) == [k \in 1..n |-> 3 + k]

SearchLists ==
    { <<>>, <<3, 1>>, <<2, 3>>, Fillers(search_top - 1) \o <<1>>, Fillers(search_top) \o <<1>> }

Nameless == [id |-> 3, name |-> <<>>, artists |-> DuaLipa,
             duration_ms |-> 203000, isrc |-> "ISRC-A"]

\* tracks.py lines 331-336
SearchQueries(track) ==
    IF track.name = <<>> \/ track.artists = <<>> THEN <<>>
    ELSE build_search_queries(track.name, track.artists[1])

TopResults_All(items) == items

\* tracks.py line 352
TopResults(items) == SubSeq(items, 1, Min(Len(items), search_top))

\* tracks.py lines 360-373: the ISRC of the source track, when it has one, or
\* the fuzzy match.
CandidateAccepted(cand, track) ==
    \/ track.isrc # NoIsrc /\ cand.isrc = track.isrc
    \/ FuzzyMatch(cand, track)

IdleSearch ==
    /\ sr_pc = "idle"
    /\ sr_track = Nameless
    /\ sr_results = <<>>
    /\ sr_failing = {}
    /\ sr_n = 0
    /\ tried_tracks = {}
    /\ sr_found = None

InitSearch ==
    /\ sr_pc = "begin"
    /\ sr_track \in SourceTracks \cup {Nameless}
    /\ sr_results \in [1..Len(SearchQueries(sr_track)) -> SearchLists]
    /\ sr_failing \in SUBSET (1..Len(SearchQueries(sr_track)))
    /\ sr_n = 0
    /\ tried_tracks = {}
    /\ sr_found = None

\* tracks.py lines 326-343: without a name, an artist or a query nothing is
\* searched.
SR_Begin ==
    /\ sr_pc = "begin"
    /\ IF SearchQueries(sr_track) = <<>>
       THEN sr_pc' = "returned" /\ UNCHANGED sr_n
       ELSE sr_pc' = "loop" /\ sr_n' = 1
    /\ UNCHANGED <<sr_track, sr_results, sr_failing, tried_tracks, sr_found>>

\* tracks.py lines 345-379: one query.  A query that raises is logged and the
\* loop continues; otherwise the top results not yet tried are tested in rank
\* order and the first accepted one is returned.
SR_Query ==
    /\ sr_pc = "loop"
    /\ sr_n <= Len(sr_results)
    /\ IF sr_n \in sr_failing
       THEN /\ sr_n' = sr_n + 1
            /\ UNCHANGED <<sr_pc, tried_tracks, sr_found>>
       ELSE LET top == TopResults(sr_results[sr_n])
                hits == {k \in DOMAIN top :
                            /\ top[k] \notin tried_tracks
                            /\ CandidateAccepted(SearchTrack(top[k]), sr_track)}
            IN  IF hits = {}
                THEN /\ tried_tracks' = tried_tracks \cup Range(top)
                     /\ sr_n' = sr_n + 1
                     /\ UNCHANGED <<sr_pc, sr_found>>
                ELSE LET h == CHOOSE k \in hits : \A l \in hits : k <= l
                     IN  /\ tried_tracks' = tried_tracks \cup {top[k] : k \in 1..h}
                         /\ sr_found' = top[h]
                         /\ sr_pc' = "returned"
                         /\ UNCHANGED sr_n
    /\ UNCHANGED <<sr_track, sr_results, sr_failing>>

\* tracks.py lines 380-381: no query gave a match.
SR_Return ==
    /\ sr_pc = "loop"
    /\ sr_n > Len(sr_results)
    /\ sr_pc' = "returned"
    /\ UNCHANGED <<sr_track, sr_results, sr_failing, sr_n, tried_tracks, sr_found>>

(***************************************************************************)
(* downloader.py and ui.py: the counters of the downloader and of the live *)
(* UI over the downloads of one run.  The playlists handed to the          *)
(* downloader are numbered in the order of their hand-over; each download  *)
(* ends with exit status zero, with another status, with a timeout or with *)
(* an exception, and the on_complete callback of a download returns or     *)
(* raises after the UI has recorded the event.                             *)
(***************************************************************************)
MaxDownloads == 2

DownloadFates == {"zero", "nonzero", "timeout", "error"}

Downloads == 1..Len(ac_names)

\* ui.py lines 599-608
queue_download(d, playlist_name) ==
    [d EXCEPT !.total_playlists = @ + 1, !.pending = @ + 1]

\* ui.py lines 610-620
start_download(d, playlist_name) ==
    [d EXCEPT !.current_playlist_name = playlist_name, !.is_downloading = TRUE]

\* ui.py lines 629-664
download_complete(d, playlist_name, success) ==
    LET pending == Max(0, d.pending - 1)
        counted == IF success
                   THEN [d EXCEPT !.pending = pending, !.completed = @ + 1]
                   ELSE [d EXCEPT !.pending = pending, !.failed = @ + 1]
    IN  IF d.current_playlist_name = playlist_name
        THEN [counted EXCEPT !.current_playlist_name = "",
                             !.is_downloading = pending > 0]
        ELSE counted

\* ui.py lines 122-134: DownloadStats()
NewDownloadState ==
    [total_playlists |-> 0, pending |-> 0, completed |-> 0, failed |-> 0,
     current_playlist_name |-> "", is_downloading |-> FALSE]

\* downloader.py lines 228-232: (completed, failed, pending)
stats == <<ac_completed, ac_failed, Len(ac_futures) + Len(ac_queue)>>

\* The downloads a pool worker is busy with.
ActiveDownloads == {i \in Downloads : ac_pc[i] \in {"running", "notify_try", "notify_handler", "except"}}

IdleAcct ==
    /\ ac_enabled = FALSE
    /\ ac_parallel = FALSE
    /\ ac_ui = FALSE
    /\ ac_names = <<>>
    /\ ac_fate = <<>>
    /\ ac_raises = <<>>
    /\ ac_main = "idle"
    /\ ac_added = 0
    /\ ac_futures = <<>>
    /\ ac_queue = <<>>
    /\ ac_pc = <<>>
    /\ ac_completed = 0
    /\ ac_failed = 0
    /\ ac_failed_playlists = <<>>
    /\ increments = <<>>
    /\ ui_download = NewDownloadState

InitAcct ==
    /\ ac_enabled \in BOOLEAN
    /\ ac_parallel \in BOOLEAN
    /\ ac_ui \in BOOLEAN
    /\ ac_names \in {s \in SeqsUpTo(PlaylistNames, MaxDownloads) : s # <<>>}
    /\ ac_fate \in [1..Len(ac_names) -> DownloadFates]
    /\ ac_raises \in [1..Len(ac_names) -> IF ac_ui THEN BOOLEAN ELSE {FALSE}]
    /\ ac_main = "loop"
    /\ ac_added = 0
    /\ ac_futures = <<>>
    /\ ac_queue = <<>>
    /\ ac_pc = [i \in 1..Len(ac_names) |-> "new"]
    /\ ac_completed = 0
    /\ ac_failed = 0
    /\ ac_failed_playlists = <<>>
    /\ increments = <<>>
    /\ ui_download = NewDownloadState

acctInputs == <<ac_enabled, ac_parallel, ac_ui, ac_names, ac_fate, ac_raises>>

\* command.py lines 169-172 with downloader.py lines 63-77: the UI, when
\* there is one, counts the playlist as queued, then add_playlist returns at
\* once (downloads off), submits the download (parallel) or queues it.
AC_Add ==
    /\ ac_main = "loop"
    /\ ac_added < Len(ac_names)
    /\ LET i == ac_added + 1
       IN  /\ ac_added' = i
           /\ ui_download' = IF ac_ui THEN queue_download(ui_download, ac_names[i])
                             ELSE ui_download
           /\ IF ~ac_enabled
              THEN UNCHANGED <<ac_futures, ac_queue, ac_pc>>
              ELSE IF ac_parallel
              THEN /\ ac_futures' = Append(ac_futures, i)
                   /\ ac_pc' = [ac_pc EXCEPT ![i] = "submitted"]
                   /\ UNCHANGED ac_queue
              ELSE /\ ac_queue' = Append(ac_queue, i)
                   /\ ac_pc' = [ac_pc EXCEPT ![i] = "queued"]
                   /\ UNCHANGED ac_futures
    /\ UNCHANGED <<acctInputs, ac_main, ac_completed, ac_failed, ac_failed_playlists, increments>>

\* command.py lines 226-233 and 630-675: after the loop the parallel
\* downloads are awaited, or the queued ones are run.
AC_LoopEnd ==
    /\ ac_main = "loop"
    /\ ac_added = Len(ac_names)
    /\ ac_main' = IF ~ac_enabled THEN "end" ELSE IF ac_parallel THEN "wait" ELSE "drain"
    /\ UNCHANGED <<acctInputs, ac_added, ac_futures, ac_queue, ac_pc, ac_completed, ac_failed,
                   ac_failed_playlists, increments, ui_download>>

\* downloader.py lines 82-110: on_start is called and the subprocess is run.
\* In the pool at most max_workers downloads run, in the order of their
\* submission; download_queued runs them one after the other.
DW_Start(i) ==
    /\ \/ /\ ac_pc[i] = "submitted"
          /\ Cardinality(ActiveDownloads) < max_workers
          /\ \A j \in 1..(i - 1) : ac_pc[j] # "submitted"
       \/ /\ ac_pc[i] = "queued"
          /\ ac_main = "drain"
          /\ \A j \in 1..(i - 1) : ac_pc[j] = "done"
    /\ ac_pc' = [ac_pc EXCEPT ![i] = "running"]
    /\ ui_download' = IF ac_ui THEN start_download(ui_download, ac_names[i]) ELSE ui_download
    /\ UNCHANGED <<acctInputs, ac_main, ac_added, ac_futures, ac_queue, ac_completed, ac_failed,
                   ac_failed_playlists, increments>>

\* downloader.py lines 111-130, 137-141 and 146-150: under the lock exactly
\* one counter is incremented for the outcome of the subprocess, and a failed
\* download is appended to the failed list.
DW_Finish(i) ==
    /\ ac_pc[i] = "running"
    /\ IF ac_fate[i] = "zero"
       THEN /\ ac_completed' = ac_completed + 1
            /\ increments' = Append(increments, [dl |-> i, counter |-> "completed"])
            /\ UNCHANGED <<ac_failed, ac_failed_playlists>>
       ELSE /\ ac_failed' = ac_failed + 1
            /\ ac_failed_playlists' = Append(ac_failed_playlists, i)
            /\ increments' = Append(increments, [dl |-> i, counter |-> "failed"])
            /\ UNCHANGED ac_completed
    /\ ac_pc' = [ac_pc EXCEPT ![i] = IF ac_fate[i] \in {"zero", "nonzero"}
                                      THEN "notify_try" ELSE "notify_handler"]
    /\ UNCHANGED <<acctInputs, ac_main, ac_added, ac_futures, ac_queue, ui_download>>

\* downloader.py lines 132-135, 143-145 and 152-154: on_complete is called,
\* inside the try block after a finished subprocess and inside the handler
\* otherwise; when it raises inside the try block the handler of line 147
\* takes over, when it raises inside a handler the exception leaves the
\* function.
DW_Notify(i) ==
    /\ ac_pc[i] \in {"notify_try", "notify_handler"}
    /\ ui_download' = IF ac_ui
                      THEN download_complete(ui_download, ac_names[i],
                                             ac_pc[i] = "notify_try" /\ ac_fate[i] = "zero")
                      ELSE ui_download
    /\ ac_pc' = [ac_pc EXCEPT ![i] = IF ~ac_raises[i] THEN "done"
                                      ELSE IF ac_pc[i] = "notify_try" THEN "except"
                                      ELSE "raised"]
    /\ UNCHANGED <<acctInputs, ac_main, ac_added, ac_futures, ac_queue, ac_completed, ac_failed,
                   ac_failed_playlists, increments>>

\* downloader.py lines 147-151: the handler of every other exception counts
\* the download as failed.
DW_Except(i) ==
    /\ ac_pc[i] = "except"
    /\ ac_failed' = ac_failed + 1
    /\ ac_failed_playlists' = Append(ac_failed_playlists, i)
    /\ increments' = Append(increments, [dl |-> i, counter |-> "failed"])
    /\ ac_pc' = [ac_pc EXCEPT ![i] = "notify_handler"]
    /\ UNCHANGED <<acctInputs, ac_main, ac_added, ac_futures, ac_queue, ac_completed, ui_download>>

\* downloader.py lines 195-220: wait_for_completion returns when every future
\* is done, a future that holds an exception included, and clears the list.
AC_Wait ==
    /\ ac_main = "wait"
    /\ \A i \in Range(ac_futures) : ac_pc[i] \in {"done", "raised"}
    /\ ac_futures' = <<>>
    /\ ac_main' = "end"
    /\ UNCHANGED <<acctInputs, ac_added, ac_queue, ac_pc, ac_completed, ac_failed,
                   ac_failed_playlists, increments, ui_download>>

\* downloader.py lines 166-171: after the last queued download the queue is
\* cleared.
AC_DrainEnd ==
    /\ ac_main = "drain"
    /\ \A i \in Range(ac_queue) : ac_pc[i] = "done"
    /\ ac_queue' = <<>>
    /\ ac_main' = "end"
    /\ UNCHANGED <<acctInputs, ac_added, ac_futures, ac_pc, ac_completed, ac_failed,
                   ac_failed_playlists, increments, ui_download>>

\* downloader.py lines 166-168: an exception out of _download_playlist leaves
\* download_queued before the queue is cleared.
AC_Abort ==
    /\ ac_main = "drain"
    /\ \E i \in Range(ac_queue) : ac_pc[i] = "raised"
    /\ ac_main' = "aborted"
    /\ UNCHANGED <<acctInputs, ac_added, ac_futures, ac_queue, ac_pc, ac_completed, ac_failed,
                   ac_failed_playlists, increments, ui_download>>

(***************************************************************************)
(* find_or_reuse_tidal_playlist called by the migration workers of one     *)
(* run.  Every call lists the user's playlists and, when no title is the   *)
(* requested name, creates a playlist; both are requests to the server,    *)
(* and requests of different workers interleave.                           *)
(***************************************************************************)
MaxRace == 3

RaceTasks == 1..Len(fc_names)

RaceActive == {i \in RaceTasks : fc_pc[i] \in {"list", "create"}}

IdleRace ==
    /\ fc_pc = <<>>
    /\ fc_names = <<>>
    /\ fc_workers = 0
    /\ fc_server = <<>>
    /\ fc_created = <<>>

InitRace ==
    /\ fc_names \in {s \in SeqsUpTo(PlaylistNames, MaxRace) : s # <<>>}
    /\ fc_pc = [i \in 1..Len(fc_names) |-> "waiting"]
    /\ fc_workers \in 1..MaxWorkers
    /\ fc_server \in {<<>>, <<"Mix">>}
    /\ fc_created = <<>>

\* command.py lines 205-225: a worker of the pool (the one thread of the
\* sequential loop) takes the next playlist.
FC_Begin(i) ==
    /\ fc_pc[i] = "waiting"
    /\ \A j \in 1..(i - 1) : fc_pc[j] # "waiting"
    /\ Cardinality(RaceActive) < fc_workers
    /\ fc_pc' = [fc_pc EXCEPT ![i] = "list"]
    /\ UNCHANGED <<fc_names, fc_workers, fc_server, fc_created>>

\* playlist.py lines 30-75: the listing; a playlist with the requested title
\* is reused.
FC_List(i) ==
    /\ fc_pc[i] = "list"
    /\ fc_pc' = [fc_pc EXCEPT ![i] = IF \E k \in DOMAIN fc_server : fc_server[k] = fc_names[i]
                                      THEN "reused" ELSE "create"]
    /\ UNCHANGED <<fc_names, fc_workers, fc_server, fc_created>>

\* playlist.py lines 77-108: the playlist is created.
FC_Create(i) ==
    /\ fc_pc[i] = "create"
    /\ fc_server' = Append(fc_server, fc_names[i])
    /\ fc_created' = Append(fc_created, [task |-> i, title |-> fc_names[i]])
    /\ fc_pc' = [fc_pc EXCEPT ![i] = "created"]
    /\ UNCHANGED <<fc_names, fc_workers>>

IdleLate == IdleSearch /\ IdleAcct /\ IdleRace

NextMatch == MatchExisting /\ UNCHANGED <<dedupVars, rateVars, parVars, migVars, runVars, dlVars, flowVars, mutVars, lateVars>>

InitSpecMatch == InitMatch /\ IdleDedup /\ IdleRate /\ IdlePar /\ IdleMig /\ IdleRun /\ IdleDl /\ IdleFlow /\ IdleMut /\ IdleLate

SpecMatch == InitSpecMatch /\ [][NextMatch]_vars

InitSpecBounds == InitBounds /\ IdleDedup /\ IdleRate /\ IdlePar /\ IdleMig /\ IdleRun /\ IdleDl /\ IdleFlow /\ IdleMut /\ IdleLate

SpecBounds == InitSpecBounds /\ [][NextMatch]_vars

NextDedup ==
    \/ DD_Fetch /\ UNCHANGED <<matchVars, rateVars, parVars, migVars, runVars, dlVars, flowVars, mutVars, lateVars>>
    \/ DD_DeleteBatchOk /\ UNCHANGED <<matchVars, rateVars, parVars, migVars, runVars, dlVars, flowVars, mutVars, lateVars>>
    \/ DD_DeleteBatchFail /\ UNCHANGED <<matchVars, rateVars, parVars, migVars, runVars, dlVars, flowVars, mutVars, lateVars>>

InitSpecDedup == IdleMatch /\ InitDedup /\ IdleRate /\ IdlePar /\ IdleMig /\ IdleRun /\ IdleDl /\ IdleFlow /\ IdleMut /\ IdleLate

SpecDedup == InitSpecDedup /\ [][NextDedup]_vars

InitSpecNulls == IdleMatch /\ InitNulls /\ IdleRate /\ IdlePar /\ IdleMig /\ IdleRun /\ IdleDl /\ IdleFlow /\ IdleMut /\ IdleLate

SpecNulls == InitSpecNulls /\ [][NextDedup]_vars

NextRate ==
    \/ \E w \in RWorkers : RL_Enter(w) /\ UNCHANGED <<matchVars, dedupVars, parVars, migVars, runVars, dlVars, flowVars, mutVars, lateVars>>
    \/ \E w \in RWorkers : RL_Check(w) /\ UNCHANGED <<matchVars, dedupVars, parVars, migVars, runVars, dlVars, flowVars, mutVars, lateVars>>
    \/ \E w \in RWorkers : RL_Wake(w) /\ UNCHANGED <<matchVars, dedupVars, parVars, migVars, runVars, dlVars, flowVars, mutVars, lateVars>>
    \/ \E w \in RWorkers : RL_Append(w) /\ UNCHANGED <<matchVars, dedupVars, parVars, migVars, runVars, dlVars, flowVars, mutVars, lateVars>>
    \/ Tick /\ UNCHANGED <<matchVars, dedupVars, parVars, migVars, runVars, dlVars, flowVars, mutVars, lateVars>>

InitSpecRate == IdleMatch /\ IdleDedup /\ InitRate /\ IdlePar /\ IdleMig /\ IdleRun /\ IdleDl /\ IdleFlow /\ IdleMut /\ IdleLate

SpecRate == InitSpecRate /\ [][NextRate]_vars

NextPar ==
    \/ \E i \in Tasks : P_Begin(i) /\ UNCHANGED <<matchVars, dedupVars, rateVars, migVars, runVars, dlVars, flowVars, mutVars, lateVars>>
    \/ \E i \in Tasks : P_StartPlaylist(i) /\ UNCHANGED <<matchVars, dedupVars, rateVars, migVars, runVars, dlVars, flowVars, mutVars, lateVars>>
    \/ \E i \in Tasks : P_Fail(i) /\ UNCHANGED <<matchVars, dedupVars, rateVars, migVars, runVars, dlVars, flowVars, mutVars, lateVars>>
    \/ \E i \in Tasks : P_AddTrack(i) /\ UNCHANGED <<matchVars, dedupVars, rateVars, migVars, runVars, dlVars, flowVars, mutVars, lateVars>>
    \/ \E i \in Tasks : P_Finish(i) /\ UNCHANGED <<matchVars, dedupVars, rateVars, migVars, runVars, dlVars, flowVars, mutVars, lateVars>>
    \/ P_Finalize /\ UNCHANGED <<matchVars, dedupVars, rateVars, migVars, runVars, dlVars, flowVars, mutVars, lateVars>>

InitSpecPar == IdleMatch /\ IdleDedup /\ IdleRate /\ InitPar /\ IdleMig /\ IdleRun /\ IdleDl /\ IdleFlow /\ IdleMut /\ IdleLate

SpecPar == InitSpecPar /\ [][NextPar]_vars

NextMig ==
    \/ M_FindOrReuse /\ UNCHANGED <<matchVars, dedupVars, rateVars, runVars, dlVars, flowVars, mutVars, lateVars>>
    \/ M_MetadataMatch /\ UNCHANGED <<matchVars, dedupVars, rateVars, runVars, dlVars, flowVars, mutVars, lateVars>>
    \/ M_Odesli /\ UNCHANGED <<matchVars, dedupVars, rateVars, runVars, dlVars, flowVars, mutVars, lateVars>>
    \/ M_Search /\ UNCHANGED <<matchVars, dedupVars, rateVars, runVars, dlVars, flowVars, mutVars, lateVars>>
    \/ M_Add /\ UNCHANGED <<matchVars, dedupVars, rateVars, runVars, dlVars, flowVars, mutVars, lateVars>>
    \/ M_Rescue /\ UNCHANGED <<matchVars, dedupVars, rateVars, runVars, dlVars, flowVars, mutVars, lateVars>>
    \/ M_Finish /\ UNCHANGED <<matchVars, dedupVars, rateVars, runVars, dlVars, flowVars, mutVars, lateVars>>
    \/ M_Remigrate /\ UNCHANGED <<matchVars, dedupVars, rateVars, runVars, dlVars, flowVars, mutVars, lateVars>>

InitSpec ==
    /\ IdleMatch /\ IdleDedup /\ IdleRate /\ InitMig /\ IdleRun /\ IdleDl /\ IdleFlow /\ IdleMut /\ IdleLate
    /\ selected_playlists = <<>>
    /\ migration_workers = 0
    /\ par_pc = <<>>
    /\ par_idx = <<>>
    /\ c_playlists = <<>>
    /\ csv_files = <<>>

Spec == InitSpec /\ [][NextMig]_vars

NextRun ==
    \/ \E i \in Tasks : R_Begin(i) /\ UNCHANGED <<matchVars, dedupVars, rateVars, migVars, dlVars, flowVars, mutVars, lateVars>>
    \/ \E i \in Tasks : R_Process(i) /\ UNCHANGED <<matchVars, dedupVars, rateVars, migVars, dlVars, flowVars, mutVars, lateVars>>
    \/ \E i \in Tasks : D_Start(i) /\ UNCHANGED <<matchVars, dedupVars, rateVars, migVars, dlVars, flowVars, mutVars, lateVars>>
    \/ \E i \in Tasks : D_Finish(i) /\ UNCHANGED <<matchVars, dedupVars, rateVars, migVars, dlVars, flowVars, mutVars, lateVars>>
    \/ R_LoopEnd /\ UNCHANGED <<matchVars, dedupVars, rateVars, migVars, dlVars, flowVars, mutVars, lateVars>>
    \/ W_Poll /\ UNCHANGED <<matchVars, dedupVars, rateVars, migVars, dlVars, flowVars, mutVars, lateVars>>
    \/ W_Return /\ UNCHANGED <<matchVars, dedupVars, rateVars, migVars, dlVars, flowVars, mutVars, lateVars>>
    \/ R_HandleDownloads /\ UNCHANGED <<matchVars, dedupVars, rateVars, migVars, dlVars, flowVars, mutVars, lateVars>>
    \/ R_Mark /\ UNCHANGED <<matchVars, dedupVars, rateVars, migVars, dlVars, flowVars, mutVars, lateVars>>
    \/ R_Finalize /\ UNCHANGED <<matchVars, dedupVars, rateVars, migVars, dlVars, flowVars, mutVars, lateVars>>

InitSpecRun == IdleMatch /\ IdleDedup /\ IdleRate /\ IdleMig /\ InitRun /\ IdleDl /\ IdleFlow /\ IdleMut /\ IdleLate

SpecRun == InitSpecRun /\ [][NextRun]_vars

NextDl ==
    \/ DL_Launch /\ UNCHANGED <<matchVars, dedupVars, rateVars, parVars, migVars, runVars, flowVars, mutVars, lateVars>>
    \/ DL_Exit /\ UNCHANGED <<matchVars, dedupVars, rateVars, parVars, migVars, runVars, flowVars, mutVars, lateVars>>
    \/ DL_Timeout /\ UNCHANGED <<matchVars, dedupVars, rateVars, parVars, migVars, runVars, flowVars, mutVars, lateVars>>
    \/ DL_Error /\ UNCHANGED <<matchVars, dedupVars, rateVars, parVars, migVars, runVars, flowVars, mutVars, lateVars>>

InitSpecDl == IdleMatch /\ IdleDedup /\ IdleRate /\ IdlePar /\ IdleMig /\ IdleRun /\ InitDl /\ IdleFlow /\ IdleMut /\ IdleLate

SpecDl == InitSpecDl /\ [][NextDl]_vars

NextFlow ==
    \/ F_Entry /\ UNCHANGED <<matchVars, dedupVars, rateVars, migVars, dlVars, mutVars, lateVars>>
    \/ F_Select /\ UNCHANGED <<matchVars, dedupVars, rateVars, migVars, dlVars, mutVars, lateVars>>
    \/ \E i \in Tasks : F_Begin(i) /\ UNCHANGED <<matchVars, dedupVars, rateVars, migVars, dlVars, mutVars, lateVars>>
    \/ \E i \in Tasks : F_Number(i) /\ UNCHANGED <<matchVars, dedupVars, rateVars, migVars, dlVars, mutVars, lateVars>>
    \/ \E i \in Tasks : F_Migrate(i) /\ UNCHANGED <<matchVars, dedupVars, rateVars, migVars, dlVars, mutVars, lateVars>>
    \/ \E i \in Tasks : F_Cleanup(i) /\ UNCHANGED <<matchVars, dedupVars, rateVars, migVars, dlVars, mutVars, lateVars>>
    \/ \E i \in Tasks : F_AddPlaylist(i) /\ UNCHANGED <<matchVars, dedupVars, rateVars, migVars, dlVars, mutVars, lateVars>>
    \/ \E i \in Tasks : F_PoolStart(i) /\ UNCHANGED <<matchVars, dedupVars, rateVars, migVars, dlVars, mutVars, lateVars>>
    \/ \E i \in Tasks : F_Downloaded(i) /\ UNCHANGED <<matchVars, dedupVars, rateVars, migVars, dlVars, mutVars, lateVars>>
    \/ F_LoopEnd /\ UNCHANGED <<matchVars, dedupVars, rateVars, migVars, dlVars, mutVars, lateVars>>
    \/ F_Wait /\ UNCHANGED <<matchVars, dedupVars, rateVars, migVars, dlVars, mutVars, lateVars>>
    \/ F_HandleDownloads /\ UNCHANGED <<matchVars, dedupVars, rateVars, migVars, dlVars, mutVars, lateVars>>
    \/ Q_Start /\ UNCHANGED <<matchVars, dedupVars, rateVars, migVars, dlVars, mutVars, lateVars>>
    \/ Q_Done /\ UNCHANGED <<matchVars, dedupVars, rateVars, migVars, dlVars, mutVars, lateVars>>
    \/ F_Finalize /\ UNCHANGED <<matchVars, dedupVars, rateVars, migVars, dlVars, mutVars, lateVars>>
    \/ F_Abort /\ UNCHANGED <<matchVars, dedupVars, rateVars, migVars, dlVars, mutVars, lateVars>>

InitSpecFlow == IdleMatch /\ IdleDedup /\ IdleRate /\ IdleMig /\ IdleDl /\ InitFlow /\ IdleMut /\ IdleLate

SpecFlow == InitSpecFlow /\ [][NextFlow]_vars

reqVars == <<rq_pc, token, on_token_expiry, server_status, attempts, refreshes, response>>
addVars == <<at_pc, add_ids, batch_accepted, rejected, at_idx, requests, failed_tracks, success_count, error_ids, playlist_items>>
findVars == <<fr_pc, user_playlists, listing_fails_at, create_response, fr_offset, fr_calls, existing_playlist_uuid, playlist_uuid>>
snapVars == <<sn_pc, sn_items, expected_count, page_fails_at, track_offset, sn_offsets, track_ids, sn_log>>

NextReq ==
    \/ RQ_Send /\ UNCHANGED <<matchVars, dedupVars, rateVars, parVars, migVars, runVars, dlVars, flowVars, addVars, findVars, snapVars, lateVars>>
    \/ RQ_Expiry /\ UNCHANGED <<matchVars, dedupVars, rateVars, parVars, migVars, runVars, dlVars, flowVars, addVars, findVars, snapVars, lateVars>>
    \/ RQ_Retry /\ UNCHANGED <<matchVars, dedupVars, rateVars, parVars, migVars, runVars, dlVars, flowVars, addVars, findVars, snapVars, lateVars>>
    \/ RQ_Return /\ UNCHANGED <<matchVars, dedupVars, rateVars, parVars, migVars, runVars, dlVars, flowVars, addVars, findVars, snapVars, lateVars>>

InitSpecReq == IdleMatch /\ IdleDedup /\ IdleRate /\ IdlePar /\ IdleMig /\ IdleRun /\ IdleDl /\ IdleFlow /\ InitReq /\ IdleAdd /\ IdleFind /\ IdleSnap /\ IdleLate

SpecReq == InitSpecReq /\ [][NextReq]_vars

NextAdd ==
    \/ AT_Batch /\ UNCHANGED <<matchVars, dedupVars, rateVars, parVars, migVars, runVars, dlVars, flowVars, reqVars, findVars, snapVars, lateVars>>
    \/ AT_Single /\ UNCHANGED <<matchVars, dedupVars, rateVars, parVars, migVars, runVars, dlVars, flowVars, reqVars, findVars, snapVars, lateVars>>
    \/ AT_Finish /\ UNCHANGED <<matchVars, dedupVars, rateVars, parVars, migVars, runVars, dlVars, flowVars, reqVars, findVars, snapVars, lateVars>>

InitSpecAdd == IdleMatch /\ IdleDedup /\ IdleRate /\ IdlePar /\ IdleMig /\ IdleRun /\ IdleDl /\ IdleFlow /\ IdleReq /\ InitAdd /\ IdleFind /\ IdleSnap /\ IdleLate

SpecAdd == InitSpecAdd /\ [][NextAdd]_vars

NextFind ==
    \/ FR_Page /\ UNCHANGED <<matchVars, dedupVars, rateVars, parVars, migVars, runVars, dlVars, flowVars, reqVars, addVars, snapVars, lateVars>>
    \/ FR_Create /\ UNCHANGED <<matchVars, dedupVars, rateVars, parVars, migVars, runVars, dlVars, flowVars, reqVars, addVars, snapVars, lateVars>>

InitSpecFind == IdleMatch /\ IdleDedup /\ IdleRate /\ IdlePar /\ IdleMig /\ IdleRun /\ IdleDl /\ IdleFlow /\ IdleReq /\ IdleAdd /\ InitFind /\ IdleSnap /\ IdleLate

SpecFind == InitSpecFind /\ [][NextFind]_vars

NextSnap ==
    \/ SN_Page /\ UNCHANGED <<matchVars, dedupVars, rateVars, parVars, migVars, runVars, dlVars, flowVars, reqVars, addVars, findVars, lateVars>>
    \/ SN_Return /\ UNCHANGED <<matchVars, dedupVars, rateVars, parVars, migVars, runVars, dlVars, flowVars, reqVars, addVars, findVars, lateVars>>

InitSpecSnap == IdleMatch /\ IdleDedup /\ IdleRate /\ IdlePar /\ IdleMig /\ IdleRun /\ IdleDl /\ IdleFlow /\ IdleReq /\ IdleAdd /\ IdleFind /\ InitSnap /\ IdleLate

SpecSnap == InitSpecSnap /\ [][NextSnap]_vars

searchVars == <<sr_pc, sr_track, sr_results, sr_failing, sr_n, tried_tracks, sr_found>>
acctVars == <<ac_enabled, ac_parallel, ac_ui, ac_names, ac_fate, ac_raises, ac_main, ac_added, ac_futures, ac_queue, ac_pc, ac_completed, ac_failed, ac_failed_playlists, increments, ui_download>>
raceVars == <<fc_pc, fc_names, fc_workers, fc_server, fc_created>>

NextSearch ==
    \/ SR_Begin /\ UNCHANGED <<matchVars, dedupVars, rateVars, parVars, migVars, runVars, dlVars, flowVars, mutVars, acctVars, raceVars>>
    \/ SR_Query /\ UNCHANGED <<matchVars, dedupVars, rateVars, parVars, migVars, runVars, dlVars, flowVars, mutVars, acctVars, raceVars>>
    \/ SR_Return /\ UNCHANGED <<matchVars, dedupVars, rateVars, parVars, migVars, runVars, dlVars, flowVars, mutVars, acctVars, raceVars>>

InitSpecSearch == IdleMatch /\ IdleDedup /\ IdleRate /\ IdlePar /\ IdleMig /\ IdleRun /\ IdleDl /\ IdleFlow /\ IdleMut /\ InitSearch /\ IdleAcct /\ IdleRace

SpecSearch == InitSpecSearch /\ [][NextSearch]_vars

NextAcct ==
    \/ AC_Add /\ UNCHANGED <<matchVars, dedupVars, rateVars, parVars, migVars, runVars, dlVars, flowVars, mutVars, searchVars, raceVars>>
    \/ AC_LoopEnd /\ UNCHANGED <<matchVars, dedupVars, rateVars, parVars, migVars, runVars, dlVars, flowVars, mutVars, searchVars, raceVars>>
    \/ \E i \in Downloads : DW_Start(i) /\ UNCHANGED <<matchVars, dedupVars, rateVars, parVars, migVars, runVars, dlVars, flowVars, mutVars, searchVars, raceVars>>
    \/ \E i \in Downloads : DW_Finish(i) /\ UNCHANGED <<matchVars, dedupVars, rateVars, parVars, migVars, runVars, dlVars, flowVars, mutVars, searchVars, raceVars>>
    \/ \E i \in Downloads : DW_Notify(i) /\ UNCHANGED <<matchVars, dedupVars, rateVars, parVars, migVars, runVars, dlVars, flowVars, mutVars, searchVars, raceVars>>
    \/ \E i \in Downloads : DW_Except(i) /\ UNCHANGED <<matchVars, dedupVars, rateVars, parVars, migVars, runVars, dlVars, flowVars, mutVars, searchVars, raceVars>>
    \/ AC_Wait /\ UNCHANGED <<matchVars, dedupVars, rateVars, parVars, migVars, runVars, dlVars, flowVars, mutVars, searchVars, raceVars>>
    \/ AC_DrainEnd /\ UNCHANGED <<matchVars, dedupVars, rateVars, parVars, migVars, runVars, dlVars, flowVars, mutVars, searchVars, raceVars>>
    \/ AC_Abort /\ UNCHANGED <<matchVars, dedupVars, rateVars, parVars, migVars, runVars, dlVars, flowVars, mutVars, searchVars, raceVars>>

InitSpecAcct == IdleMatch /\ IdleDedup /\ IdleRate /\ IdlePar /\ IdleMig /\ IdleRun /\ IdleDl /\ IdleFlow /\ IdleMut /\ IdleSearch /\ InitAcct /\ IdleRace

SpecAcct == InitSpecAcct /\ [][NextAcct]_vars

NextRace ==
    \/ \E i \in RaceTasks : FC_Begin(i) /\ UNCHANGED <<matchVars, dedupVars, rateVars, parVars, migVars, runVars, dlVars, flowVars, mutVars, searchVars, acctVars>>
    \/ \E i \in RaceTasks : FC_List(i) /\ UNCHANGED <<matchVars, dedupVars, rateVars, parVars, migVars, runVars, dlVars, flowVars, mutVars, searchVars, acctVars>>
    \/ \E i \in RaceTasks : FC_Create(i) /\ UNCHANGED <<matchVars, dedupVars, rateVars, parVars, migVars, runVars, dlVars, flowVars, mutVars, searchVars, acctVars>>

InitSpecRace == IdleMatch /\ IdleDedup /\ IdleRate /\ IdlePar /\ IdleMig /\ IdleRun /\ IdleDl /\ IdleFlow /\ IdleMut /\ IdleSearch /\ IdleAcct /\ InitRace

SpecRace == InitSpecRace /\ [][NextRace]_vars

(***************************************************************************)
(* Claims about duplicate removal.                                         *)
(***************************************************************************)
SentIndices == Flatten([i \in 1..Len(dd_sent) |-> dd_sent[i].indices])

RemovedByServer == UNION {Range(dd_sent[i].indices) : i \in {j \in 1..Len(dd_sent) : dd_sent[j].ok}}

PresentPositions == {dd_items[i].pos : i \in 1..Len(dd_items)}

IntendedDuplicates ==
    {i - 1 : i \in {j \in 1..Len(dd_initial) :
                      \E m \in 1..(j - 1) : dd_initial[m] = dd_initial[j]}}

RECURSIVE FirstOccurrences(_)
FirstOccurrences(ids) ==
    IF ids = <<>> THEN <<>>
    ELSE LET front == SubSeq(ids, 1, Len(ids) - 1)
             last  == ids[Len(ids)]
         IN  IF last \in Range(front) THEN FirstOccurrences(front)
             ELSE Append(FirstOccurrences(front), last)

CleanupSucceeded ==
    /\ dd_pc = "done"
    /\ ~dry_run
    /\ ~dd_failed
    /\ \A i \in 1..Len(dd_sent) : dd_sent[i].ok

Scenario6 == <<100, 200, 100, 300, 200>>

C9_RemixParity ==
    m_pc # "idle" =>
        /\ \A i \in 1..Len(existing_tracks) :
              FuzzyMatch(existing_tracks[i], spotify_track)
                  => (is_remix(existing_tracks[i].title) <=> is_remix(spotify_track.name))
        /\ (m_pc = "done" /\ matched_id # None) =>
              (is_remix(existing_tracks[matched_id].title) <=> is_remix(spotify_track.name))

\* A remix is matched to a remix.
C9_Witness ==
    /\ m_pc = "done"
    /\ matched_id # None
    /\ is_remix(spotify_track.name)
    /\ is_remix(existing_tracks[matched_id].title)

(***************************************************************************)
(* Claims about the universal-link rate limit.                             *)
(***************************************************************************)
\* C8: no more than 10 universal-link requests are issued in any 60-second
\* window, for every schedule of calls, also when the one client of a run is
\* used by several migration workers at once.
C8_RateLimit ==
    \A i \in 1..Len(issued) :
        Cardinality({j \in 1..Len(issued) :
                        issued[i] <= issued[j] /\ issued[j] < issued[i] + window}) <= rate_limit

(***************************************************************************)
(* Claims about the report collector under parallel migration.             *)
(***************************************************************************)
\* The rows of task i in a list, as the sequence of their track numbers.
TracksOf(rows, i) ==
    LET own == SelectSeq(rows, LAMBDA r : r.task = i)
    IN  [k \in 1..Len(own) |-> own[k].track]

Increasing(ns) == \A a, b \in 1..Len(ns) : a < b => ns[a] < ns[b]

InSourceOrder(lists) ==
    \A n \in DOMAIN lists : \A i \in Tasks :
        /\ Increasing(TracksOf(lists[n], i))
        /\ TracksOf(lists[n], i) # <<>> => selected_playlists[i].name = n

\* C2: for every playlist, the rows the collector holds for it, and the rows
\* written to the CSV, appear in the order of the tracks of the source
\* playlist, under every interleaving of the migration workers.
C2_OrderPreservation == InSourceOrder(c_playlists) /\ InSourceOrder(csv_files)

\* Two playlists of the same name are in their track loops at once, and their
\* shared list holds at least two rows of one of them next to a row of the other.
C2_Witness ==
    \E i, j \in Tasks :
        /\ i # j
        /\ par_pc[i] = "loop" /\ par_pc[j] = "loop"
        /\ \E n \in DOMAIN c_playlists :
              /\ Len(TracksOf(c_playlists[n], i)) >= 2
              /\ Len(TracksOf(c_playlists[n], j)) >= 1

(***************************************************************************)
(* Claims about the migration of one playlist.                             *)
(***************************************************************************)
Outcomes == {"added", "skipped", "failed_to_add", "not_found"}

InLoop == mg_pc \in {"step0", "odesli", "search", "add", "rescue"}

AfterLoop == mg_pc \in {"summary", "done"}

\* C1: every source track whose iteration has run has exactly one row, in
\* track order and with one of the four outcomes; after the loop the rows
\* are as many as the source tracks and none is pending.
C1_ReportCompleteness ==
    /\ \A k \in 1..Len(Rows) : Rows[k].track = k /\ Rows[k].status \in Outcomes
    /\ InLoop => Len(Rows) = track_idx - 1
    /\ AfterLoop => Len(Rows) = Len(spotify_tracks)

\* A finished run in which one track was added by the rescue and the add of
\* another was rejected for good.
C1_Witness ==
    /\ mg_pc = "done"
    /\ \E k \in 1..Len(Rows) : Rows[k].source = "tidal_search_fallback"
    /\ \E k \in 1..Len(Rows) : Rows[k].status = "failed_to_add"

\* C3: the second run on an unchanged source playlist, with the same answers
\* of the services, issues no successful add, records no row added and
\* leaves the item count of the target playlist unchanged.
C3_Idempotence ==
    run = 2 =>
        /\ \A i \in 1..Len(calls) : ~(calls[i].kind = "add" /\ calls[i].ok)
        /\ \A k \in 1..Len(Rows) : Rows[k].status # "added"
        /\ mg_pc # "start" => Len(tidal_items) = items_at_start

Count(id, items) == Cardinality({i \in 1..Len(items) : items[i] = id})

ResolvedTo(id) ==
    Cardinality({k \in 1..Len(Rows) :
                    Rows[k].tidal_id = id /\ Rows[k].status \in {"added", "skipped"}})

\* C4: an add is never issued for an id that is already in the set of
\* existing ids, and after the migration of a playlist that started empty no
\* target id occurs in it more often than source tracks resolved to it.
C4_NoDuplicateAdds ==
    /\ \A i \in 1..Len(calls) : calls[i].kind = "add" => ~calls[i].known
    /\ (mg_pc = "done" /\ items_at_start = 0) =>
           \A id \in TidalIds : Count(id, tidal_items) <= ResolvedTo(id)

MetadataIds == {existing_tracks_metadata[i].id : i \in 1..Len(existing_tracks_metadata)}

MatchedAtStep0(k) ==
    match_spotify_to_existing_tidal(spotify_tracks[k], existing_tracks_metadata)

\* No service call is made for a track that metadata-matches, and its row is
\* skipped / metadata_match with the matched id.
MetadataHitShortCircuits ==
    /\ \A i \in 1..Len(calls) : MatchedAtStep0(calls[i].track) = None
    /\ \A k \in 1..Len(Rows) :
          MatchedAtStep0(Rows[k].track) # None =>
              /\ Rows[k].status = "skipped"
              /\ Rows[k].source = "metadata_match"
              /\ Rows[k].tidal_id = MatchedAtStep0(Rows[k].track)

\* The search call is the rescue after the add of the universal-link id of
\* the same track was rejected.
IsRescueSearch(i) ==
    /\ calls[i].rescue
    /\ \E j \in 1..(i - 1) :
          /\ calls[j].kind = "add"
          /\ calls[j].track = calls[i].track
          /\ calls[j].id = calls[i].odesli_id
          /\ ~calls[j].ok

\* C10 as stated: a metadata hit short-circuits the cascade, and the target
\* search is attempted only when the universal-link step yielded no id.
C10_ShortCircuit ==
    InLoop \/ AfterLoop =>
        /\ MetadataHitShortCircuits
        /\ \A i \in 1..Len(calls) :
              calls[i].kind = "search" => calls[i].odesli_id = None

\* C10 as amended: a metadata hit short-circuits the cascade, and the target
\* search is attempted only when the universal-link step yielded no id or as
\* the rescue after the add of the universal-link id was rejected.
C10_ShortCircuitOrRescue ==
    InLoop \/ AfterLoop =>
        /\ MetadataHitShortCircuits
        /\ \A i \in 1..Len(calls) :
              calls[i].kind = "search" =>
                  calls[i].odesli_id = None \/ IsRescueSearch(i)

\* One track of the run was skipped by the metadata match, another went
\* through a rejected add and the rescue search.
C10_Witness ==
    /\ \E k \in 1..Len(Rows) : Rows[k].source = "metadata_match"
    /\ \E i \in 1..Len(calls) : calls[i].kind = "search" /\ calls[i].rescue

\* The queries that a search of the k-th source track may send.
QueriesOf(k) == build_search_queries(spotify_tracks[k].name, spotify_tracks[k].artists[1])

\* The cascade of track k has passed the search step.
PastSearch(k) == k < track_idx \/ AfterLoop \/ mg_pc \in {"add", "rescue"}

QueryLogged(k, rescue, n) ==
    \E e \in 1..Len(query_log) :
        /\ query_log[e].track = k
        /\ query_log[e].rescue = rescue
        /\ query_log[e].n = n

\* C11: an exception of the universal-link call or of a search query counts
\* as no result of that step, and the next step or the next query is still
\* attempted; a row is not_found only if the metadata match, the
\* universal-link step and every search query gave no id.
C11_CascadeFailure ==
    InLoop \/ AfterLoop =>
        /\ \A i \in 1..Len(calls) :
              (calls[i].kind = "odesli" /\ ~calls[i].ok) =>
                  /\ calls[i].id = None
                  /\ PastSearch(calls[i].track) =>
                        \E j \in (i + 1)..Len(calls) :
                            /\ calls[j].kind = "search"
                            /\ calls[j].track = calls[i].track
                            /\ ~calls[j].rescue
        /\ \A e \in 1..Len(query_log) :
              ~query_log[e].ok =>
                  /\ query_log[e].id = None
                  /\ query_log[e].n < Len(QueriesOf(query_log[e].track)) =>
                        QueryLogged(query_log[e].track, query_log[e].rescue,
                                    query_log[e].n + 1)
        /\ \A k \in 1..Len(Rows) :
              Rows[k].status = "not_found" =>
                  /\ MatchedAtStep0(Rows[k].track) = None
                  /\ \E i \in 1..Len(calls) :
                        /\ calls[i].kind = "odesli"
                        /\ calls[i].track = Rows[k].track
                        /\ calls[i].id = None
                  /\ \A n \in 1..Len(QueriesOf(Rows[k].track)) :
                        \E e \in 1..Len(query_log) :
                            /\ query_log[e].track = Rows[k].track
                            /\ query_log[e].n = n
                            /\ query_log[e].id = None

\* The universal-link call of a track raised, the first query of its search
\* raised as well, and the second query found the id.
C11_Witness ==
    \E i \in 1..Len(calls) :
        /\ calls[i].kind = "odesli" /\ ~calls[i].ok
        /\ \E e, f \in 1..Len(query_log) :
              /\ query_log[e].track = calls[i].track /\ query_log[e].n = 1
              /\ ~query_log[e].ok
              /\ query_log[f].track = calls[i].track /\ query_log[f].n = 2
              /\ query_log[f].id # None

\* ---------------------------------------------------------------------------
\* C12  Post-add rescue
\* ---------------------------------------------------------------------------

\* The calls of the run that are about track k.
CallsOf(k) == SelectSeq(calls, LAMBDA c : c.track = k)

\* The rows the collector holds for track k.
RowsOf(k) == SelectSeq(Rows, LAMBDA r : r.track = k)

\* The universal-link step gave id a for track k and the add of a was rejected.
OdesliAddRejected(k, a) ==
    /\ a # None
    /\ \E i \in DOMAIN calls :
           calls[i].kind = "odesli" /\ calls[i].track = k /\ calls[i].id = a
    /\ \E i \in DOMAIN calls :
           /\ calls[i].kind = "add" /\ calls[i].track = k /\ ~calls[i].rescue
           /\ calls[i].id = a /\ ~calls[i].ok

\* The retried search of track k returned b.
RescueSearched(k, a, b) ==
    \E i \in DOMAIN calls :
        /\ calls[i].kind = "search" /\ calls[i].track = k /\ calls[i].rescue
        /\ calls[i].odesli_id = a /\ calls[i].id = b

\* The add of b in the rescue of track k was accepted.
RescueAdded(k, b) ==
    \E i \in DOMAIN calls :
        /\ calls[i].kind = "add" /\ calls[i].track = k /\ calls[i].rescue
        /\ calls[i].id = b /\ calls[i].ok

\* C12: once the loop has left a track whose universal-link id A was rejected
\* by the add, the target search has been retried for it; when the retry gave
\* an id B other than A and the add of B was accepted, the track has exactly
\* one row, which is added / tidal_search_fallback / B, and B is in the set of
\* existing ids; in every other case the track has exactly one row, which is
\* failed_to_add; and the loop went on to the next track.
C12_PostAddRescue ==
    \A k \in DOMAIN spotify_tracks : \A a \in TidalIds :
        (OdesliAddRejected(k, a) /\ mg_pc # "rescue") =>
            /\ track_idx > k
            /\ \E b \in TidalIds \cup {None} : RescueSearched(k, a, b)
            /\ Len(RowsOf(k)) = 1
            /\ \A b \in TidalIds \cup {None} :
                   RescueSearched(k, a, b) =>
                       IF b # None /\ b # a /\ RescueAdded(k, b)
                       THEN /\ RowsOf(k)[1] = Row(k, "added", "tidal_search_fallback", b)
                            /\ b \in existing_track_ids
                       ELSE RowsOf(k)[1].status = "failed_to_add"

\* The rescue replaced a rejected universal-link id by another id, and the
\* loop has gone on.
C12_Witness ==
    \E k \in DOMAIN spotify_tracks : \E a, b \in TidalIds :
        /\ OdesliAddRejected(k, a)
        /\ RescueSearched(k, a, b)
        /\ b # a
        /\ RescueAdded(k, b)
        /\ track_idx > k
        /\ Len(RowsOf(k)) = 1
        /\ RowsOf(k)[1].source = "tidal_search_fallback"

(***************************************************************************)
(* Claims about the run of the command over the selected playlists.        *)
(***************************************************************************)
\* The rows of task i that a name -> rows mapping holds.
ReportsOf(lists, i) ==
    IF RunNames[i] \in DOMAIN lists THEN lists[RunNames[i]] ELSE <<>>

\* migrate_playlist gave the playlist up before its tracks were processed.
FailedEarly(i) ==
    /\ selected_playlists[i].fate \in {"fetch_fails", "find_fails"}
    /\ par_pc[i] = "done"

ErrorLogged(i) ==
    /\ RunNames[i] \in DOMAIN text_logs
    /\ text_logs[RunNames[i]] =
          IF selected_playlists[i].fate = "fetch_fails"
          THEN "ERROR: Failed to fetch tracks"
          ELSE "ERROR: Failed to create/find Tidal playlist"

\* C13: a playlist whose fetch or whose find-or-create failed has the error in
\* its text log, is neither added to nor handed to the downloader, and does
\* not end the run; once the reports are written it has a CSV that holds one
\* not_found row per track of the playlist.
C13_PlaylistScopedFailure ==
    /\ \A i \in Tasks :
           FailedEarly(i) =>
               /\ ErrorLogged(i)
               /\ dl_state[i] = "none"
               /\ \A k \in DOMAIN ReportsOf(c_playlists, i) :
                      ReportsOf(c_playlists, i)[k].status # "added"
               /\ main_pc = "end" =>
                      /\ RunNames[i] \in DOMAIN csv_files
                      /\ Len(csv_files[RunNames[i]]) = selected_playlists[i].total
                      /\ \A k \in DOMAIN csv_files[RunNames[i]] :
                             csv_files[RunNames[i]][k].status = "not_found"
    /\ main_pc = "crashed" => \E j \in Tasks : par_pc[j] = "raised"

\* C14: once the migration loop is over, every selected playlist has been
\* started, whatever was raised while another playlist was processed, in the
\* parallel and in the sequential mode.
C14_PoolBoundaryIsolation ==
    main_pc # "loop" => \A i \in Tasks : par_pc[i] # "queued"

DownloadOutcome(success) == IF success THEN "downloaded" ELSE "failed"

\* C15: every playlist whose download result has been applied has its added
\* and skipped rows marked downloaded or failed according to the result, and
\* its not_found and failed_to_add rows left not_attempted.
C15_DownloadMarking ==
    \A n \in DOMAIN applied :
        LET rows == ReportsOf(c_playlists, applied[n].task)
        IN  \A k \in DOMAIN rows :
                rows[k].download_status =
                    IF rows[k].status \in {"added", "skipped"}
                    THEN DownloadOutcome(applied[n].success)
                    ELSE "not_attempted"

\* C16: in a run with downloads enabled, once the CSVs are written every
\* added or skipped row of a playlist that was handed to the downloader
\* carries the result of that playlist's download.
C16_DownloadResultsReachReports ==
    (main_pc = "end" /\ options.download) =>
        \A i \in Tasks :
            dl_state[i] # "none" =>
                \A k \in DOMAIN ReportsOf(csv_files, i) :
                    ReportsOf(csv_files, i)[k].status \in {"added", "skipped"} =>
                        ReportsOf(csv_files, i)[k].download_status =
                            DownloadOutcome(dl_state[i] = "ok")

\* C20: a call of wait_for_completion that has returned found every playlist
\* submitted before it finished, returned exactly one tuple for each of them,
\* and called the progress callback once in every iteration of its loop.
C20_WaitForCompletion ==
    \A n \in DOMAIN wait_log :
        LET w == wait_log[n]
        IN  /\ \A i \in w.submitted : Finished(i)
            /\ Len(w.results) = Cardinality(w.submitted)
            /\ {w.results[k].task : k \in DOMAIN w.results} = w.submitted
            /\ \A k \in DOMAIN w.results :
                   w.results[k] = DownloadResult(w.results[k].task,
                                                 dl_state[w.results[k].task] = "ok")
            /\ w.on_progress => w.progress = w.iterations

(***************************************************************************)
(* Claims about the download of one playlist.                              *)
(***************************************************************************)
EventsOf(kind) == {k \in DOMAIN events : events[k].ev = kind}

\* C17: the timeout of a playlist download is max(600, 30 * track_count)
\* seconds when track_count > 0 and 7200 seconds otherwise; the playlist is
\* downloaded by one subprocess that is launched once with this timeout, it
\* never runs longer, and it is timed out exactly when it would.
C17_DynamicTimeout ==
    d_pc \in {"running", "returned"} =>
        /\ timeout_seconds =
              IF track_count > 0
              THEN (IF 30 * track_count > 600 THEN 30 * track_count ELSE 600)
              ELSE 7200
        /\ Cardinality(EventsOf("launch")) = 1
        /\ \A k \in EventsOf("launch") : events[k].timeout = timeout_seconds
        /\ d_pc = "returned" =>
               /\ proc.outcome = "exit" => proc.duration <= timeout_seconds
               /\ proc.outcome = "timeout" => proc.duration = timeout_seconds

\* A playlist of 21 tracks got 630 seconds, and its download, which took 620
\* seconds, was not timed out.
C17_Witness ==
    /\ d_pc = "returned"
    /\ track_count = 21
    /\ timeout_seconds = 630
    /\ proc.outcome = "exit"
    /\ proc.duration = 620

\* The lines of the output that name an error, whatever their case.
ErrorTexts == {"Error: track unavailable", "fatal ERROR while writing the stream ..."}

ErrorPositions(lines) == {k \in DOMAIN lines : lines[k].text \in ErrorTexts}

NonBlank(lines) == \E k \in DOMAIN lines : lines[k].len > 0

Shortened(len) == IF len > 200 THEN 200 ELSE len

Started == {i \in Tasks : current_num[i] # 0}

StepsOf(i) == Range(task_steps[i])

IsPrefixOf(s, t) == Len(s) <= Len(t) /\ \A k \in DOMAIN s : s[k] = t[k]

\* The places of a step in a playlist's history.
Places(i, names) == {k \in DOMAIN task_steps[i] : task_steps[i][k] \in names}

DownloadStarted(i) == dl_state[i] \in {"running", "ok", "failed"}

\* C21: with downloads enabled, add_playlist in parallel mode submits the
\* download to the pool at once and in sequential mode only enqueues it: no
\* download starts before download_queued is called, download_queued runs the
\* queued playlists one at a time in the order they were enqueued and leaves
\* the queue empty; with downloads disabled add_playlist changes no state and
\* starts nothing.
C21_DownloadModes ==
    /\ ~options.download =>
          /\ futures = <<>>
          /\ queued_playlists = <<>>
          /\ dl_order = <<>>
          /\ \A i \in Tasks : dl_state[i] = "none"
    /\ options.download /\ options.parallel_download =>
          /\ queued_playlists = <<>>
          /\ drain = "not_called"
          /\ \A i \in Range(handed) : dl_state[i] \in {"submitted", "running", "ok", "failed"}
          /\ \A i \in Tasks : dl_state[i] # "none" => i \in Range(handed)
          /\ futures \in {handed, <<>>}
    /\ options.download /\ ~options.parallel_download =>
          /\ futures = <<>>
          /\ \A i \in Tasks : dl_state[i] # "none" <=> i \in Range(handed)
          /\ drain = "not_called" =>
                /\ dl_order = <<>>
                /\ queued_playlists = handed
                /\ \A i \in Range(handed) : dl_state[i] = "queued"
          /\ drain = "running" => queued_playlists = handed
          /\ Cardinality({i \in Tasks : dl_state[i] = "running"}) <= 1
          /\ IsPrefixOf(dl_order, handed)
          /\ \A k \in DOMAIN dl_order : k < Len(dl_order) => Finished(dl_order[k])
          /\ drain = "returned" =>
                /\ queued_playlists = <<>>
                /\ dl_order = handed
                /\ \A i \in Range(handed) : Finished(i)

C21_Witness ==
    /\ options.download
    /\ ~options.parallel_download
    /\ migration_workers = 2
    /\ drain = "returned"
    /\ handed = <<2, 1>>
    /\ dl_order = <<2, 1>>

\* C25: without the credentials of the source catalog, or without a login,
\* the command stops before any migration work and exits with a status that
\* is not zero; a run that completes exits with status 0 even when playlists
\* failed.
C25_ExitStatus ==
    /\ auth # "ok" =>
          /\ selected_playlists = <<>>
          /\ playlist_counter = 0
          /\ mutations = {}
          /\ main_pc \in {"entry", "exit"}
    /\ auth # "ok" /\ main_pc = "exit" => exit_code # 0
    /\ main_pc = "end" => exit_code = 0

\* C26: in a dry run no request that changes the target catalog is issued
\* for any selected playlist (no creation, no add, no delete, no update of a
\* description), no playlist is handed to the downloader and no CSV report is
\* written.
C26_DryRunChangesNothing ==
    options.dry_run =>
        /\ mutations = {}
        /\ handed = <<>>
        /\ futures = <<>>
        /\ queued_playlists = <<>>
        /\ dl_order = <<>>
        /\ \A i \in Tasks : dl_state[i] = "none"
        /\ csv_files = <<>>

C26_Witness ==
    /\ options.dry_run
    /\ options.download
    /\ options.cleanup
    /\ main_pc = "end"
    /\ Len(selected_playlists) = 2
    /\ \A i \in Tasks : "dry_run" \in StepsOf(i)

\* C27: under any interleaving of the migration workers the numbers given to
\* the playlists that have started are 1..k for k started playlists, each
\* number given to exactly one playlist, every start event carries the number
\* of its playlist, and once the loop over the P selected playlists has ended
\* the numbers are exactly 1..P.
C27_PlaylistNumbering ==
    /\ \A i, j \in Started : current_num[i] = current_num[j] => i = j
    /\ {current_num[i] : i \in Started} = 1..Cardinality(Started)
    /\ Ui(options) =>
          /\ Len(start_events) = Cardinality(Started)
          /\ \A k \in DOMAIN start_events :
                current_num[start_events[k].task] = start_events[k].num
          /\ \A k, l \in DOMAIN start_events :
                start_events[k].task = start_events[l].task => k = l
    /\ ~Ui(options) => start_events = <<>>
    /\ main_pc \in {"ui_wait", "handle", "wait", "drain", "finalize", "end"} =>
          {current_num[i] : i \in Tasks} = 1..Len(selected_playlists)

C27_Witness ==
    /\ Ui(options)
    /\ migration_workers = 2
    /\ main_pc = "end"
    /\ start_events = <<[num |-> 1, task |-> 2], [num |-> 2, task |-> 1]>>

\* C28: a playlist is given to the downloader only after its track loop, the
\* update of its description and, when cleanup is enabled, the removal of its
\* duplicates have finished, in this order; a failure of the update of the
\* description or of the removal of the duplicates does not keep the
\* playlist from the downloader.
C28_StepOrder ==
    \A i \in Tasks :
        /\ i \in Range(handed) <=> "add_playlist" \in StepsOf(i)
        /\ dl_state[i] # "none" => "add_playlist" \in StepsOf(i)
        /\ "add_playlist" \in StepsOf(i) =>
              /\ Places(i, {"add_playlist"}) = {Len(task_steps[i])}
              /\ Places(i, {"tracks"}) # {}
              /\ Places(i, {"description", "description_failed"}) # {}
              /\ options.cleanup => Places(i, {"cleanup", "cleanup_failed"}) # {}
              /\ \A k \in Places(i, {"tracks"}),
                    l \in Places(i, {"description", "description_failed"}) : k < l
              /\ \A k \in Places(i, {"description", "description_failed"}),
                    l \in Places(i, {"cleanup", "cleanup_failed", "add_playlist"}) : k < l
              /\ \A k \in Places(i, {"cleanup", "cleanup_failed"}),
                    l \in Places(i, {"add_playlist"}) : k < l
        /\ par_pc[i] = "done"
             /\ StepsOf(i) \cap {"description_failed", "cleanup_failed"} # {} =>
              /\ "add_playlist" \in StepsOf(i)
              /\ options.download => dl_state[i] # "none"

C28_Witness ==
    \E i \in Tasks :
        /\ {"description_failed", "cleanup_failed", "add_playlist"} \subseteq StepsOf(i)
        /\ DownloadStarted(i)

(***************************************************************************)
(* Claims about the target API client and the playlist helpers             *)
(***************************************************************************)
\* The requests of the per-id path for the ids of a batch: before the single
\* add of each id, in the order of the batch, the entity tag is read.
FallbackLog(ids) ==
    [k \in 1..(2 * Len(ids)) |->
        IF k % 2 = 1 THEN [kind |-> "etag", ids |-> <<>>]
        ELSE [kind |-> "add", ids |-> <<ids[k \div 2]>>]]

Refused(id) == id \in rejected

Taken(id) == id \notin rejected

SetOf(s) == {s[k] : k \in DOMAIN s}

\* C22: when the batch add is answered with a non-2xx status every id of the
\* batch is added singly, in order, each single add right after a fresh read
\* of the entity tag; the call returns normally exactly when no single add
\* failed, and otherwise raises an error listing exactly the ids whose single
\* add failed, while the ids that succeeded are in the playlist.
C22_AddFallback ==
    (at_pc \in {"returned", "raised"} /\ ~batch_accepted) =>
        /\ requests = <<[kind |-> "etag", ids |-> <<>>], [kind |-> "add", ids |-> add_ids]>>
                      \o FallbackLog(add_ids)
        /\ (at_pc = "returned") <=> (\A k \in DOMAIN add_ids : Taken(add_ids[k]))
        /\ (at_pc = "raised") => error_ids = SelectSeq(add_ids, Refused)
        /\ SetOf(playlist_items) = SetOf(SelectSeq(add_ids, Taken))
        /\ success_count + Len(failed_tracks) = Len(add_ids)

C22_Witness ==
    /\ at_pc = "raised"
    /\ ~batch_accepted
    /\ add_ids = <<11, 22>>
    /\ error_ids = <<22>>
    /\ playlist_items = <<11>>
    /\ Len(requests) = 6

\* The user's playlists as they were before the call.
ListedBefore == SelectSeq(user_playlists, LAMBDA p : p.uuid # new_uuid)

Bearing == {k \in DOMAIN ListedBefore : ListedBefore[k].title = PlaylistName}

CreateCalled == \E k \in DOMAIN fr_calls : fr_calls[k].op = "create"

\* C23: for every list of user playlists, the first playlist in listing order
\* whose title is exactly the requested name is reused and nothing is
\* created; a playlist is created only when no user playlist bears the
\* requested title.
C23_FindOrReuse ==
    fr_pc \in {"reused", "created", "raised"} =>
        /\ Bearing # {} =>
              /\ fr_pc = "reused"
              /\ existing_playlist_uuid =
                    ListedBefore[CHOOSE k \in Bearing : \A l \in Bearing : k <= l].uuid
              /\ ~CreateCalled
        /\ CreateCalled => Bearing = {}

\* The same when no listing request fails: the listing loop itself.
FindOrReuse_ListingAnswered ==
    (fr_pc \in {"reused", "created", "raised"} /\ listing_fails_at = 0) =>
        /\ Bearing # {} =>
              /\ fr_pc = "reused"
              /\ existing_playlist_uuid =
                    ListedBefore[CHOOSE k \in Bearing : \A l \in Bearing : k <= l].uuid
              /\ ~CreateCalled
        /\ CreateCalled => Bearing = {}

\* C24 as stated: a 401 triggers one refresh and one retry with the new
\* token, at most two attempts are made, the second response is returned
\* whatever its status, and another status triggers no refresh.
C24_Original ==
    rq_pc = "returned" =>
        /\ Len(attempts) <= 2
        /\ server_status[1] = unauthorized =>
              /\ refreshes = 1
              /\ Len(attempts) = 2
              /\ attempts[2].token = "new"
              /\ response = server_status[2]
        /\ server_status[1] # unauthorized => refreshes = 0 /\ Len(attempts) = 1

\* C24: a 401 answered to a client whose token-expiry handler yields a token
\* triggers one refresh and one retry with the new token, and the second
\* response is returned whatever its status; when the handler yields no token
\* it is called once and the 401 is returned without a retry; without a
\* handler, and on every status other than 401, there is no refresh and the
\* first response is returned.  At most two attempts are ever made.
C24_OneShotRetry ==
    /\ Len(attempts) <= 2
    /\ refreshes <= 1
    /\ rq_pc = "returned" =>
          /\ attempts[1].token = "old"
          /\ IF server_status[1] = unauthorized /\ on_token_expiry = "refreshes"
             THEN /\ refreshes = 1
                  /\ Len(attempts) = 2
                  /\ attempts[2].token = "new"
                  /\ response = server_status[2]
             ELSE /\ Len(attempts) = 1
                  /\ response = server_status[1]
                  /\ refreshes = IF server_status[1] = unauthorized /\ on_token_expiry = "fails"
                                 THEN 1 ELSE 0

C24_Witness ==
    /\ rq_pc = "returned"
    /\ server_status = <<unauthorized, 500>>
    /\ on_token_expiry = "refreshes"
    /\ Len(attempts) = 2
    /\ attempts[2].token = "new"
    /\ response = 500

\* C29: the items of a reused playlist are requested in pages of 100 at the
\* offsets 0, 100, 200, ... below the playlist's item count; the loop ends,
\* and when every page request succeeded the snapshot holds the id of every
\* item that has one; a failed page or a size mismatch is logged and the ids
\* read so far are returned.
C29_SnapshotPagination ==
    /\ \A k \in DOMAIN sn_offsets :
          sn_offsets[k] = (k - 1) * track_limit /\ sn_offsets[k] < expected_count
    /\ sn_pc \in {"loop", "after", "returned"}
    /\ (sn_pc = "returned" /\ page_fails_at \notin 1..Len(sn_offsets)) =>
          track_ids = SetOf(sn_items) \ {None}

\* The same for playlists whose pages each hold a usable track.
SnapshotPagination_UsablePages ==
    (sn_pc = "returned" /\ page_fails_at \notin 1..Len(sn_offsets)
        /\ \A k \in 1..Min(Len(sn_items), track_limit) : sn_items[k] # None) =>
          track_ids = SetOf(sn_items) \ {None}

\* C30: for every content of the target playlist, items without a usable
\* track included, the index recorded for each listed track is that track's
\* zero-based position in the playlist.
C30_RecordedIndex ==
    dd_pc # "start" =>
        \A r \in DOMAIN tracks_with_indices :
            /\ tracks_with_indices[r].index + 1 \in DOMAIN dd_initial
            /\ dd_initial[tracks_with_indices[r].index + 1] = tracks_with_indices[r].track_id

(***************************************************************************)
(* Claims about the search, the matcher and the accounting of downloads    *)
(***************************************************************************)
\* The snapshot items that pass the three predicates for the source track,
\* the duration predicate written out: the two durations differ by at most
\* 2000 ms.
PassingItems ==
    {i \in DOMAIN existing_tracks :
        /\ 1000 * existing_tracks[i].duration - spotify_track.duration_ms <= 2000
        /\ spotify_track.duration_ms - 1000 * existing_tracks[i].duration <= 2000
        /\ name_match(existing_tracks[i].title, spotify_track.name)
        /\ artist_match(existing_tracks[i].artists, spotify_track.artists)}

\* C32: the match against the snapshot returns the id of the first item, in
\* snapshot order, that passes the duration, title and artist predicates, and
\* no id exactly when no item passes; the duration predicate holds exactly
\* when the durations differ by at most 2000 ms, both ends included.
C32_MetadataMatch ==
    m_pc = "done" =>
        IF PassingItems = {} THEN matched_id = None
        ELSE matched_id =
                existing_tracks[CHOOSE i \in PassingItems : \A j \in PassingItems : i <= j].id

C32_Witness ==
    /\ m_pc = "done"
    /\ spotify_track.duration_ms = 203000
    /\ Len(existing_tracks) = 2
    /\ existing_tracks[1].duration = 205
    /\ existing_tracks[1].artists # spotify_track.artists
    /\ existing_tracks[2].duration = 201
    /\ matched_id = 2

\* A search result passes for the source track when it has the ISRC of the
\* source track or passes the three metadata predicates.
Acceptable(id) ==
    \/ sr_track.isrc # NoIsrc /\ SearchTrack(id).isrc = sr_track.isrc
    \/ /\ duration_match(SearchTrack(id).duration, sr_track.duration_ms, 2)
       /\ name_match(SearchTrack(id).title, sr_track.name)
       /\ artist_match(SearchTrack(id).artists, sr_track.artists)

\* The candidates of the search: rank k among the first ten results of a
\* query n that was answered.
GoodCandidates ==
    {c \in (DOMAIN sr_results) \X (1..10) :
        /\ c[1] \notin sr_failing
        /\ c[2] <= Len(sr_results[c[1]])
        /\ Acceptable(sr_results[c[1]][c[2]])}

Earlier(c, d) == c[1] < d[1] \/ (c[1] = d[1] /\ c[2] <= d[2])

\* C31: the search returns the id of the first candidate, in query order and
\* then in rank order among the ten first results of each query, that has
\* the ISRC of the source track or passes the three metadata predicates; it
\* returns no id exactly when there is no such candidate; a query that raises
\* is skipped and the later queries are still sent.
C31_SearchResult ==
    sr_pc = "returned" =>
        IF GoodCandidates = {} THEN sr_found = None
        ELSE LET first == CHOOSE c \in GoodCandidates : \A d \in GoodCandidates : Earlier(c, d)
             IN  sr_found = sr_results[first[1]][first[2]]

C31_Witness ==
    /\ sr_pc = "returned"
    /\ sr_failing = {1}
    /\ Len(sr_results) = 2
    /\ sr_results[1] = <<3, 1>>
    /\ Len(sr_results[2]) = 10
    /\ sr_found = 1

\* The downloads that have ended, with a result or with an exception.
EndedDownloads == {i \in Downloads : ac_pc[i] \in {"done", "raised"}}

IncrementsOf(i, counter) ==
    Cardinality({k \in DOMAIN increments :
                    increments[k].dl = i /\ increments[k].counter = counter})

\* C33: at every moment the triple (completed, failed, pending) of stats sums
\* to the number of playlists added to the downloader so far.
C33_PendingCount ==
    ac_enabled => stats[1] + stats[2] + stats[3] = ac_added

\* C34: every download increments exactly one of the two counters, exactly
\* once, and is on the failed list exactly when it failed; once all downloads
\* have ended completed + failed is the number of playlists submitted and
\* failed is the length of the failed list, also when on_complete raises.
C34_ExactlyOnce ==
    /\ \A i \in EndedDownloads :
          /\ IncrementsOf(i, "completed") + IncrementsOf(i, "failed") = 1
          /\ (i \in Range(ac_failed_playlists)) <=> (IncrementsOf(i, "failed") = 1)
    /\ ac_failed = Len(ac_failed_playlists)
    /\ (ac_enabled /\ ac_added = Len(ac_names) /\ EndedDownloads = Downloads) =>
          ac_completed + ac_failed = ac_added

\* The same for runs in which no callback raises.
ExactlyOnce_CallbacksReturn ==
    (\A i \in Downloads : ~ac_raises[i]) => C34_ExactlyOnce

\* C38: in the live UI completed + failed + pending is at every moment the
\* number of playlists queued for download and pending is never negative;
\* once every download of the run has ended, and in a run with downloads
\* switched off, pending is 0.
C38_UiCounters ==
    ac_ui =>
        /\ ui_download.completed + ui_download.failed + ui_download.pending
              = ui_download.total_playlists
        /\ ui_download.total_playlists = ac_added
        /\ ui_download.pending >= 0
        /\ ac_main = "end" => ui_download.pending = 0

\* The same for runs with downloads switched on in which no callback raises.
UiCounters_DownloadsOn ==
    (ac_enabled /\ \A i \in Downloads : ~ac_raises[i]) => C38_UiCounters

\* The downloads whose complete event has reached the UI: the callback has
\* been entered; a download back in a handler after its callback raised has
\* two increments.
Notified ==
    {i \in Downloads :
        \/ ac_pc[i] \in {"except", "done", "raised"}
        \/ /\ ac_pc[i] = "notify_handler"
           /\ IncrementsOf(i, "completed") + IncrementsOf(i, "failed") = 2}

\* A download is in flight from its start event to its complete event.
InFlight ==
    {i \in Downloads : ac_pc[i] \in {"running", "notify_try", "notify_handler"}} \ Notified

StartedDownloads == {i \in Downloads : ac_pc[i] \notin {"new", "queued", "submitted"}}

\* C39: the UI's is_downloading flag is true whenever a download is in
\* flight, and false once every started download has completed.
C39_DownloadingFlag ==
    ac_ui =>
        /\ InFlight # {} => ui_download.is_downloading
        /\ (StartedDownloads # {} /\ InFlight = {}) => ~ui_download.is_downloading

\* The flag while a download is in flight and no other has been started.
DownloadingFlag_OneAtATime ==
    (ac_ui /\ InFlight # {} /\ Cardinality(StartedDownloads) = 1) =>
        ui_download.is_downloading

\* C37: at most one target playlist is created per title during a run.
C37_OneCreationPerTitle ==
    \A k, l \in DOMAIN fc_created :
        fc_created[k].title = fc_created[l].title => k = l

\* The same for the sequential loop, whose listing sees every earlier creation.
OneCreationPerTitle_Sequential == fc_workers = 1 => C37_OneCreationPerTitle

\* The rows that the tasks have passed to add_track so far.
PassedRows(i) == {[task |-> i, track |-> k] : k \in 1..par_idx[i]}

HeldUnder(lists, i) ==
    /\ selected_playlists[i].name \in DOMAIN lists
    /\ PassedRows(i) \subseteq Range(lists[selected_playlists[i].name])

\* C36: when the reports are finalized the collector still holds, under the
\* playlist's name, every row that was passed to add_track, for every
\* selection of playlists (two of one name included) and every interleaving
\* of the migration workers; the written reports hold them too.
C36_NoRowLost ==
    /\ (\A i \in Tasks : par_pc[i] \in {"done", "written"}) =>
          \A i \in Tasks : PassedRows(i) # {} => HeldUnder(c_playlists, i)
    /\ (Tasks # {} /\ \A i \in Tasks : par_pc[i] = "written") =>
          \A i \in Tasks : PassedRows(i) # {} => HeldUnder(csv_files, i)

\* The same for selections in which no two playlists bear the same name.
NoRowLost_DistinctNames ==
    (\A i, j \in Tasks : selected_playlists[i].name = selected_playlists[j].name => i = j)
        => C36_NoRowLost

\* command.py lines 1020-1040: whether migrate_playlist goes on to return the
\* playlist's id after the track loop, from the lists of the loop and the set
\* of the ids known to be in the target.
ReturnsUuid(added, skipped, failed, existing_ids) ==
    IF added # {} THEN TRUE
    ELSE IF skipped # {} /\ failed = {} THEN TRUE
    ELSE IF existing_ids = {} /\ added = {} THEN FALSE
    ELSE TRUE

RowsWith(statuses) == {k \in DOMAIN Rows : Rows[k].status \in statuses}

\* A target that is empty after the track loop makes migrate_playlist return
\* None: nothing was added, nothing skipped, and no id is known.
EmptyTarget_ReturnsNone ==
    (mg_pc \in {"summary", "done"} /\ tidal_items = <<>>) =>
        ~ReturnsUuid(RowsWith({"added"}), RowsWith({"skipped"}),
                     RowsWith({"failed_to_add", "not_found"}), existing_track_ids)

NoRepeats(s) == \A k, l \in DOMAIN s : s[k] = s[l] => k = l

\* C35: a playlist is handed to the downloader at most once per run, and only
\* when its source was fetched, its target found or created and its migration
\* went past the return for a target that is empty with nothing added.
C35_HandOver ==
    /\ NoRepeats(handed) /\ NoRepeats(futures) /\ NoRepeats(queued_playlists)
    /\ \A i \in Range(handed) \cup Range(futures) \cup Range(queued_playlists) :
          /\ i \in Range(handed)
          /\ {"fetch", "find", "tracks"} \subseteq StepsOf(i)
          /\ StepsOf(i) \cap {"fetch_failed", "find_failed", "raise", "dry_run"} = {}
          /\ StepsOf(i) \cap {"description", "description_failed"} # {}

\* One playlist came back from an empty target and was not handed over, the
\* other was migrated and handed over.
C35_Witness ==
    \E i, j \in Tasks :
        /\ par_pc[i] = "done" /\ task_steps[i] = <<"fetch", "find", "tracks">>
        /\ i \notin Range(handed)
        /\ handed = <<j>>

====
